---- MODULE Spec2Model ----
(***************************************************************************)
(* State-machine model of geminicli2api's credential pool (src/src/auth.py):*)
(* the 429 cooldown tracker, credential loading and selection, project-id  *)
(* resolution and the onboarding handshake; and of its stateless functions:*)
(* the OpenAI/Gemini transformers (src/src/openai_transformers.py) and     *)
(* inbound authentication.                                                 *)
(***************************************************************************)
EXTENDS Integers, Sequences, FiniteSets, TLC

(***************************************************************************)
(* Bounds of the model.                                                    *)
(***************************************************************************)
\* time.time() is a float: the clock is modelled in ticks, TicksPerSec per second
TicksPerSec == 2
\* the clock stops advancing after MaxNowSec seconds
MaxNowSec == 130
\* set_credential_cooldown is called at most MaxSignals times in a row per path
MaxSignals == 7
\* the rate-limit signals the entries stand for while credentials are being
\* selected are at most MaxPoolSignals in all
MaxPoolSignals == 1
\* and the clock stops advancing after MaxPoolNowSec seconds
MaxPoolNowSec == 60
\* at most MaxUploads upload_auth requests are between their open and their write
MaxUploads == 2
\* the token endpoint issues at most MaxRefreshes new access tokens
MaxRefreshes == 2
\* image URLs of up to MaxUrlLen characters are tried exhaustively
MaxUrlLen == 4
\* a structured message content has at most MaxContentParts parts
MaxContentParts == 3
\* an upstream reply has at most MaxReplyParts parts
MaxReplyParts == 3
\* and is streamed in at most MaxChunks chunks
MaxChunks == 3
\* an upstream response has at most MaxCandidates candidates
MaxCandidates == 2
\* decoded HTTP Basic credentials of up to MaxBasicLen characters are tried
MaxBasicLen == 3
\* a load answer lists at most MaxTiers allowed tiers
MaxTiers == 2
\* the passes of the poll loop of one call are counted up to MaxPolls
MaxPolls == 3

(***************************************************************************)
(* Program constants.                                                      *)
(***************************************************************************)
base_cooldown == 60
max_cooldown == 1800
BackoffCap == 5
\* asyncio.sleep(5) between two passes of the onboarding poll loop
poll_interval == 5

\* credential file paths, the keys of _credential_cooldowns
Paths == {"auth/p1.json", "auth/p2.json"}

VARIABLES
  now,                   \* time.time(), in ticks
  credential_cooldowns,  \* _credential_cooldowns: path -> <<expiry, backoff>>
  last,                  \* the last cooldown call: operation, path, result, dict before
  streak,                \* per path: set_credential_cooldown calls since its entry was last absent
  afterReset,            \* per path: a reset_credential_cooldown not yet followed by a set
  auth_files,            \* the auth folder: the credential files in os.listdir order
  resolved,              \* the last get_credentials call: argument, result, files loaded
  uploads,               \* per path: upload_auth requests that opened the file and have not written
  env_project,           \* os.getenv("GOOGLE_CLOUD_PROJECT"), NoProject when unset
  onboarding_complete,   \* the module global onboarding_complete
  user_project_id,       \* the module global user_project_id
  req,                   \* per request: position, credentials object, call in progress
  token_seq,             \* the number of the last access token the token endpoint issued
  handshakes,            \* the project ids whose onboarding handshake has succeeded
  call,                  \* the stateless function being called, and its argument
  result                 \* what that function has returned so far

cooldownVars == <<now, credential_cooldowns, last, streak, afterReset>>
poolVars == <<auth_files, resolved, uploads>>
onboardVars == <<env_project, onboarding_complete, user_project_id, req, token_seq, handshakes>>
callVars == <<call, result>>
vars == <<cooldownVars, poolVars, onboardVars, callVars>>

(***************************************************************************)
(* Python helpers.                                                         *)
(***************************************************************************)
Min(a, b) == IF a <= b THEN a ELSE b

RECURSIVE Pow2(_)
Pow2(n) == IF n <= 0 THEN 1 ELSE 2 * Pow2(n - 1)

\* int(x / TicksPerSec): truncation toward zero
IntSeconds(x) == IF x >= 0 THEN x \div TicksPerSec ELSE -((-x) \div TicksPerSec)

\* d[k] = v
DictPut(d, k, v) == [x \in (DOMAIN d) \cup {k} |-> IF x = k THEN v ELSE d[x]]

\* d.pop(k, None)
DictPop(d, k) == [x \in (DOMAIN d) \ {k} |-> d[x]]

EmptyDict == [x \in {} |-> <<0, 0>>]

(***************************************************************************)
(* The cooldown tracker, auth.py:206-247.                                  *)
(***************************************************************************)
\* mutant: the backoff level grows without the cap
next_backoff_uncapped(cd, path) ==
  IF path \in DOMAIN cd THEN cd[path][2] + 1 ELSE 1

\* mutant: the level read from the entry is stored back without the increment
next_backoff_not_incremented(cd, path) ==
  IF path \in DOMAIN cd THEN Min(cd[path][2], BackoffCap) ELSE 1

\* the backoff level stored by the call
next_backoff(cd, path) ==
  IF path \in DOMAIN cd THEN Min(cd[path][2] + 1, BackoffCap) ELSE 1

\* mutant: the cooldown halves with each backoff level
cooldown_seconds_halving(backoff) == Min(base_cooldown \div Pow2(backoff - 1), max_cooldown)

\* cooldown_seconds for a backoff level
cooldown_seconds(backoff) == Min(base_cooldown * Pow2(backoff - 1), max_cooldown)

set_credential_cooldown(cd, t, path) ==
  LET backoff == next_backoff(cd, path)
  IN  DictPut(cd, path, <<t + cooldown_seconds(backoff) * TicksPerSec, backoff>>)

is_credential_in_cooldown(cd, t, path) ==
  IF path \notin DOMAIN cd THEN [ret |-> FALSE, cd |-> cd]
  ELSE IF t >= cd[path][1] THEN [ret |-> FALSE, cd |-> DictPop(cd, path)]
  ELSE [ret |-> TRUE, cd |-> cd]

get_credential_cooldown_remaining(cd, t, path) ==
  IF path \notin DOMAIN cd THEN [ret |-> 0, cd |-> cd]
  ELSE LET remaining == IntSeconds(cd[path][1] - t)
       IN  IF remaining <= 0 THEN [ret |-> 0, cd |-> DictPop(cd, path)]
           ELSE [ret |-> remaining, cd |-> cd]

\* mutant: the reset does nothing
reset_credential_cooldown_noop(cd, path) == cd

\* mutant: the reset clears the expiry and keeps the backoff level
reset_credential_cooldown_keep_backoff(cd, path) ==
  IF path \in DOMAIN cd THEN DictPut(cd, path, <<0, cd[path][2]>>) ELSE cd

reset_credential_cooldown(cd, path) ==
  IF path \in DOMAIN cd THEN DictPop(cd, path) ELSE cd

(***************************************************************************)
(* The credential store and the credential objects, auth.py:90-150.        *)
(***************************************************************************)
\* project ids; NoProject is Python's None (or an empty string)
Projects == {"p1", "p2"}
NoProject == ""
NoPath == ""

\* AUTH_DIR/{project_id}.json
PathOf(project_id) == IF project_id = "p1" THEN "auth/p1.json" ELSE "auth/p2.json"

\* The JSON text of a credential file.  json is FALSE when json.loads raises.
\* token and access_token are 0 when the key is absent, -1 when the key is there
\* with an empty string or null, and a positive number for a token string;
\* expiry is "absent", "past", "future" or "malformed".
FileJson(json, project_id, token, access_token, refresh_token, expiry) ==
  [json |-> json, project_id |-> project_id, token |-> token,
   access_token |-> access_token, refresh_token |-> refresh_token, expiry |-> expiry]

\* None, as a credentials value
NoneCreds ==
  [loaded |-> FALSE, token |-> 0, refresh_token |-> "", expired |-> FALSE,
   project_id |-> NoProject, origin |-> NoPath]

\* `creds and creds.token`
Usable(creds) == creds.loaded /\ creds.token # 0

\* the first index of sequence s whose element satisfies P, 0 when there is none
FirstIndex(s, P(_)) ==
  IF \E i \in DOMAIN s : P(s[i])
  THEN CHOOSE i \in DOMAIN s : P(s[i]) /\ \A j \in 1..(i - 1) : ~P(s[j])
  ELSE 0

list_credential_files(files) == [i \in DOMAIN files |-> files[i].path]

\* the text of the file at path
ReadFile(files, path) == files[FirstIndex(files, LAMBDA f : f.path = path)].data

\* Credentials.from_authorized_user_info keeps token, refresh_token and expiry (and
\* the client id, secret and scopes); the object it builds has no project_id
\* attribute and its to_json() has no project_id key.  An absent expiry makes the
\* object expired; an expiry string that does not parse raises, like unparsable JSON.
load_credentials_from_data(d, path) ==
  LET \* auth.py:129: the alias is made when the token key is absent
      aliased == IF d.access_token # 0 /\ d.token = 0 THEN d.access_token ELSE d.token
      \* an empty or null token is a falsy creds.token
      token == IF aliased > 0 THEN aliased ELSE 0
  IN  IF ~d.json \/ d.expiry = "malformed" THEN NoneCreds
      ELSE [loaded |-> TRUE, token |-> token, refresh_token |-> d.refresh_token,
            expired |-> d.expiry # "future", project_id |-> NoProject, origin |-> path]

\* the file is opened, read and closed with nothing written to it meanwhile
load_credentials_from_file(files, path) ==
  load_credentials_from_data(ReadFile(files, path), path)

\* the module global `credentials`: None, and assigned nowhere
credentials == NoneCreds

\* no text read
NoData == FileJson(FALSE, NoProject, 0, 0, "", "absent")

\* A get_credentials call.  Each file is opened, read and closed by aiofiles, and
\* the call gives the event loop back at each of the three: pc is "idle" (not
\* called), "find" (in the loop of find_credential_file_for_project), "load"
\* (loading the file found), "any" (in the loop of load_any_valid_credentials)
\* or "returned", and at is the suspension of the file at hand: "open", "read"
\* or "close".  listing and i are the list of paths the running loop goes
\* through and its position, data is the text read from the file that is being
\* closed, cred_file is the file found for the project, creds is the value
\* returned, loaded the paths handed to load_credentials_from_file.  stable
\* tells that no file of the folder was written since the call began.
NotResolved ==
  [pc |-> "idle", at |-> "", project_id |-> NoProject, listing |-> <<>>, i |-> 0,
   data |-> NoData, cred_file |-> NoPath, creds |-> NoneCreds, loaded |-> {},
   stable |-> TRUE]

\* the call is at a suspension
InProgress(r) == r.pc \in {"find", "load", "any"}

\* `return creds`: the locals of the call are gone
Return(r, creds) ==
  [r EXCEPT !.pc = "returned", !.at = "", !.creds = creds, !.listing = <<>>, !.i = 0,
            !.data = NoData, !.cred_file = NoPath]

\* load_any_valid_credentials lists the folder, and get_credentials returns
\* None when there is nothing to load
load_any_valid_credentials_begin(r, files) ==
  LET paths == list_credential_files(files)
  IN  IF paths = <<>> THEN Return(r, NoneCreds)
      ELSE [r EXCEPT !.pc = "any", !.at = "open", !.listing = paths, !.i = 1,
                     !.data = NoData, !.cred_file = NoPath]

\* get_credentials up to the first file it opens
get_credentials_begin(files, project_id) ==
  LET r == [NotResolved EXCEPT !.project_id = project_id]
      paths == list_credential_files(files)
  IN  IF Usable(credentials) THEN Return(r, credentials)
      ELSE IF project_id # NoProject /\ paths # <<>>
      THEN [r EXCEPT !.pc = "find", !.at = "open", !.listing = paths, !.i = 1]
      ELSE load_any_valid_credentials_begin(r, files)

\* the file the call is at
FileAt(r) == IF r.pc = "load" THEN r.cred_file ELSE r.listing[r.i]

\* `async with aiofiles.open(file, 'r') as f`: the file is open, nothing is read
FileOpened(r) == [r EXCEPT !.at = "read"]

\* `content = await f.read()`: the text of the file as it is now
FileWasRead(r, files) == [r EXCEPT !.at = "close", !.data = ReadFile(files, FileAt(r))]

\* one pass of the loop of find_credential_file_for_project, from the close of
\* the file at i on: a match is handed to load_credentials_from_file, and at
\* the end of the listing with no match get_credentials goes on to
\* load_any_valid_credentials, which lists the folder as it is now
find_credential_file_for_project(r, files) ==
  LET file == r.listing[r.i]
      creds_data == r.data
  IN  IF creds_data.json /\ creds_data.project_id = r.project_id
      THEN [r EXCEPT !.pc = "load", !.at = "open", !.cred_file = file,
                     !.listing = <<>>, !.i = 0, !.data = NoData]
      ELSE IF r.i < Len(r.listing)
      THEN [r EXCEPT !.i = @ + 1, !.at = "open", !.data = NoData]
      ELSE load_any_valid_credentials_begin(r, files)

\* creds = await load_credentials_from_file(cred_file), auth.py:268-271, from
\* the close of the file on
load_found_credentials(r, files) ==
  LET creds == load_credentials_from_data(r.data, r.cred_file)
      r1 == [r EXCEPT !.loaded = @ \cup {r.cred_file}]
  IN  IF Usable(creds) THEN Return(r1, creds)
      ELSE load_any_valid_credentials_begin(r1, files)

\* mutant: the search gives up at the first file that does not load with a token
load_any_valid_credentials_first_only(r, files) ==
  LET file == r.listing[r.i]
      creds == load_credentials_from_data(r.data, file)
      r1 == [r EXCEPT !.loaded = @ \cup {file}]
  IN  IF Usable(creds) THEN Return(r1, creds) ELSE Return(r1, NoneCreds)

\* one pass of the loop of load_any_valid_credentials, from the close of the
\* file at i on
load_any_valid_credentials(r, files) ==
  LET file == r.listing[r.i]
      creds == load_credentials_from_data(r.data, file)
      r1 == [r EXCEPT !.loaded = @ \cup {file}]
  IN  IF Usable(creds) THEN Return(r1, creds)
      ELSE IF r.i < Len(r.listing)
      THEN [r1 EXCEPT !.i = @ + 1, !.at = "open", !.data = NoData]
      ELSE Return(r1, NoneCreds)

\* the call goes on from the close of a file to its next suspension
FileClosed(r, files) ==
  CASE r.pc = "find" -> find_credential_file_for_project(r, files)
    [] r.pc = "load" -> load_found_credentials(r, files)
    [] r.pc = "any" -> load_any_valid_credentials(r, files)
    [] OTHER -> r

\* the call goes on to its next suspension, over the folder as it is now
get_credentials_resume(r, files) ==
  CASE ~InProgress(r) -> r
    [] r.at = "open" -> FileOpened(r)
    [] r.at = "read" -> FileWasRead(r, files)
    [] OTHER -> FileClosed(r, files)

RECURSIVE get_credentials_run(_, _)
get_credentials_run(r, files) ==
  IF ~InProgress(r) THEN r
  ELSE get_credentials_run(get_credentials_resume(r, files), files)

\* a whole call over a folder that no one writes meanwhile: the result and the
\* paths handed to load_credentials_from_file
get_credentials(files, project_id) ==
  LET r == get_credentials_run(get_credentials_begin(files, project_id), files)
  IN  [creds |-> r.creds, loaded |-> r.loaded]

(***************************************************************************)
(* Actions of the cooldown tracker.                                        *)
(***************************************************************************)
NoReset == [pending |-> FALSE, level |-> 0]

Call(op, path, retBool, retInt, reset) ==
  [op |-> op, path |-> path, retBool |-> retBool, retInt |-> retInt,
   before |-> credential_cooldowns, reset |-> reset]

\* streak after a step that leaves cd2 as the dict: an absent entry ends the streak
StreakAfter(cd2) == [p \in Paths |-> IF p \in DOMAIN cd2 THEN streak[p] ELSE 0]

\* no stateless function is being called
NoCall == [fn |-> "none"]
NotReturned == [done |-> FALSE]

InitCallIdle ==
  /\ call = NoCall
  /\ result = NotReturned

InitCooldown ==
  /\ now = 0
  /\ credential_cooldowns = EmptyDict
  /\ last = [op |-> "none", path |-> "auth/p1.json", retBool |-> FALSE, retInt |-> 0,
             before |-> EmptyDict, reset |-> NoReset]
  /\ streak = [p \in Paths |-> 0]
  /\ afterReset = [p \in Paths |-> NoReset]

\* The tracker's functions are plain functions with no await: a call made by a
\* request path on the event loop runs from its read of the dict to its write
\* with no other path's code in between, so each call is one step, and the calls
\* of the paths interleave in any order.
SetCooldown(path) ==
  /\ streak[path] < MaxSignals
  /\ credential_cooldowns' = set_credential_cooldown(credential_cooldowns, now, path)
  /\ streak' = [streak EXCEPT ![path] = @ + 1]
  /\ last' = Call("set", path, FALSE, 0, afterReset[path])
  /\ afterReset' = [afterReset EXCEPT ![path] = NoReset]
  /\ UNCHANGED now

IsInCooldown(path) ==
  LET r == is_credential_in_cooldown(credential_cooldowns, now, path)
  IN  /\ credential_cooldowns' = r.cd
      /\ streak' = StreakAfter(r.cd)
      /\ last' = Call("is_in", path, r.ret, 0, NoReset)
      /\ UNCHANGED <<now, afterReset>>

CooldownRemaining(path) ==
  LET r == get_credential_cooldown_remaining(credential_cooldowns, now, path)
  IN  /\ credential_cooldowns' = r.cd
      /\ streak' = StreakAfter(r.cd)
      /\ last' = Call("remaining", path, FALSE, r.ret, NoReset)
      /\ UNCHANGED <<now, afterReset>>

ResetCooldown(path) ==
  LET cd2 == reset_credential_cooldown(credential_cooldowns, path)
  IN  /\ credential_cooldowns' = cd2
      /\ streak' = StreakAfter(cd2)
      /\ last' = Call("reset", path, FALSE, 0, NoReset)
      /\ afterReset' = [afterReset EXCEPT ![path] =
            [pending |-> TRUE,
             level |-> IF path \in DOMAIN credential_cooldowns
                       THEN credential_cooldowns[path][2] ELSE 0]]
      /\ UNCHANGED now

\* the instants the clock advances to: half a tick-second before an expiry, the
\* expiry itself, and one base cooldown from now
AdvanceTargets ==
  UNION {{credential_cooldowns[p][1] - 1, credential_cooldowns[p][1]} :
            p \in DOMAIN credential_cooldowns}
    \cup {now + base_cooldown * TicksPerSec}

Advance ==
  /\ \E t \in AdvanceTargets :
        /\ t > now
        /\ t <= MaxNowSec * TicksPerSec
        /\ now' = t
  /\ last' = Call("advance", last.path, FALSE, 0, NoReset)
  /\ UNCHANGED <<credential_cooldowns, streak, afterReset>>

NextCooldown ==
  \/ \E p \in Paths : SetCooldown(p) /\ UNCHANGED <<poolVars, onboardVars, callVars>>
  \/ \E p \in Paths : IsInCooldown(p) /\ UNCHANGED <<poolVars, onboardVars, callVars>>
  \/ \E p \in Paths : CooldownRemaining(p) /\ UNCHANGED <<poolVars, onboardVars, callVars>>
  \/ \E p \in Paths : ResetCooldown(p) /\ UNCHANGED <<poolVars, onboardVars, callVars>>
  \/ Advance /\ UNCHANGED <<poolVars, onboardVars, callVars>>


(***************************************************************************)
(* Credential selection: get_credentials over the auth folder, with the    *)
(* cooldown tracker running beside it.                                     *)
(***************************************************************************)
GoodFile(project_id, token) == FileJson(TRUE, project_id, token, 0, "rt", "future")

\* open(path, "w") and write: the file is replaced where it is listed, or
\* created.  os.listdir gives no order: a created file is listed at any place
\* pos among the files that were there.
WriteFile(files, path, data, pos) ==
  IF \E i \in DOMAIN files : files[i].path = path
  THEN [i \in DOMAIN files |->
          IF files[i].path = path THEN [path |-> path, data |-> data] ELSE files[i]]
  ELSE SubSeq(files, 1, pos - 1) \o <<[path |-> path, data |-> data]>>
         \o SubSeq(files, pos, Len(files))

\* what a file of the auth folder may hold
PoolData(project_id, token) ==
  { GoodFile(project_id, token),
    FileJson(TRUE, project_id, 0, token, "rt", "past"),
    FileJson(TRUE, project_id, 0, 0, "rt", "future"),
    FileJson(TRUE, project_id, -1, token, "rt", "future"),
    FileJson(TRUE, project_id, token, 0, "rt", "malformed"),
    FileJson(FALSE, NoProject, 0, 0, "", "absent") }

\* the token string in the file of a project
TokenOf(project_id) == IF project_id = "p1" THEN 1 ELSE 2

\* the folders: empty, one file, or one file per project in either listing order
PoolStores ==
  LET f1s == {[path |-> PathOf("p1"), data |-> d] : d \in PoolData("p1", TokenOf("p1"))}
      f2s == {[path |-> PathOf("p2"), data |-> d] : d \in PoolData("p2", TokenOf("p2"))}
  IN  {<<>>} \cup {<<f>> : f \in f1s \cup f2s}
        \cup UNION {{<<f1, f2>>, <<f2, f1>>} : <<f1, f2>> \in f1s \X f2s}

\* no upload_auth request is under way
NoUploads == [p \in Paths |-> 0]

InitPoolIdle ==
  /\ auth_files = <<>>
  /\ resolved = NotResolved
  /\ uploads = NoUploads

InitPoolStore ==
  /\ InitCooldown
  /\ InitCallIdle
  /\ auth_files \in PoolStores
  /\ resolved = NotResolved
  /\ uploads = NoUploads

\* get_credentials is called, and runs up to the first file it opens
GetCredentials(project_id) ==
  /\ resolved.pc \in {"idle", "returned"}
  /\ resolved' = get_credentials_begin(auth_files, project_id)
  /\ UNCHANGED <<cooldownVars, auth_files, uploads, onboardVars, callVars>>

\* the open, the read or the close the call waits for is done, and the call runs
\* up to its next suspension, or returns
FileStep ==
  /\ InProgress(resolved)
  /\ resolved' = get_credentials_resume(resolved, auth_files)
  /\ UNCHANGED <<cooldownVars, auth_files, uploads, onboardVars, callVars>>

\* what a step of another request path leaves of the call: a call in progress
\* goes on, a result has been used
Meanwhile(r) == IF InProgress(r) THEN r ELSE NotResolved

\* what an upload leaves of the get_credentials call: a call in progress has
\* seen a file written, a result has been used
Uploaded(r) == IF InProgress(r) THEN [r EXCEPT !.stable = FALSE] ELSE NotResolved

\* the uploads carry the file name of one project: its credential file is
\* created, or uploaded again
UploadedProjects == {"p1"}

\* the upload_auth requests between their open and their write
UploadsUnderWay == uploads[PathOf("p1")] + uploads[PathOf("p2")]

\* POST /upload_auth, dashboard.py:188-196, up to its first suspension:
\* aiofiles.open(save_path, 'wb') creates the file, or empties the one that is
\* there; an empty file does not parse
UploadOpen(path, pos) ==
  /\ UploadsUnderWay < MaxUploads
  /\ pos \in 1..(Len(auth_files) + 1)
  /\ (\E i \in DOMAIN auth_files : auth_files[i].path = path) => pos = 1
  /\ auth_files' = WriteFile(auth_files, path, NoData, pos)
  /\ uploads' = [uploads EXCEPT ![path] = @ + 1]
  /\ resolved' = Uploaded(resolved)
  /\ UNCHANGED <<cooldownVars, onboardVars, callVars>>

\* `await f_out.write(content)` and the close of one of the requests that have
\* opened the file: its content is written from the start of the file, over
\* whatever the file holds by then (nothing, or what another request wrote
\* after this one had opened it).  A shorter content written over a longer one
\* leaves a text that does not parse, which is one of the contents data
\* ranges over.
UploadWrite(path, data) ==
  /\ uploads[path] > 0
  /\ auth_files' = WriteFile(auth_files, path, data, 1)
  /\ uploads' = [uploads EXCEPT ![path] = @ - 1]
  /\ resolved' = Uploaded(resolved)
  /\ UNCHANGED <<cooldownVars, onboardVars, callVars>>

\* the cooldown calls of the other request paths
PoolCooldown(cd2) ==
  /\ credential_cooldowns' = cd2
  /\ resolved' = Meanwhile(resolved)
  /\ UNCHANGED <<now, last, streak, afterReset, auth_files, uploads, onboardVars,
                 callVars>>

\* the rate-limit signals the entries of the dict stand for
PoolSignals(cd) ==
  LET level(p) == IF p \in DOMAIN cd THEN cd[p][2] ELSE 0
  IN  level(PathOf("p1")) + level(PathOf("p2"))

PoolSetCooldown(path) ==
  /\ PoolSignals(credential_cooldowns) < MaxPoolSignals
  /\ PoolCooldown(set_credential_cooldown(credential_cooldowns, now, path))

PoolIsInCooldown(path) ==
  PoolCooldown(is_credential_in_cooldown(credential_cooldowns, now, path).cd)

\* dashboard.py:21-22
PoolCooldownRemaining(path) ==
  PoolCooldown(get_credential_cooldown_remaining(credential_cooldowns, now, path).cd)

PoolResetCooldown(path) ==
  PoolCooldown(reset_credential_cooldown(credential_cooldowns, path))

\* the clock of the selection runs to the end of a cooldown, or one base
\* cooldown on
PoolAdvanceTargets ==
  {credential_cooldowns[p][1] : p \in DOMAIN credential_cooldowns}
    \cup {now + base_cooldown * TicksPerSec}

PoolAdvance ==
  /\ \E t \in PoolAdvanceTargets :
       t > now /\ t <= MaxPoolNowSec * TicksPerSec /\ now' = t
  /\ resolved' = Meanwhile(resolved)
  /\ UNCHANGED <<credential_cooldowns, last, streak, afterReset, auth_files, uploads,
                 onboardVars,
                 callVars>>

NextPool ==
  \/ \E p \in Paths : PoolSetCooldown(p)
  \/ \E p \in Paths : PoolIsInCooldown(p)
  \/ \E p \in Paths : PoolCooldownRemaining(p)
  \/ \E p \in Paths : PoolResetCooldown(p)
  \/ PoolAdvance
  \/ \E project_id \in Projects \cup {NoProject} : GetCredentials(project_id)
  \/ FileStep
  \/ \E project_id \in UploadedProjects, pos \in 1..(Len(auth_files) + 1) :
       UploadOpen(PathOf(project_id), pos)
  \/ \E project_id \in UploadedProjects :
       \E data \in PoolData(project_id, TokenOf(project_id)) :
         UploadWrite(PathOf(project_id), data)

(***************************************************************************)
(* Token refresh and persistence, auth.py:181-190.                         *)
(***************************************************************************)
\* creds.to_json() with the project_id added, as the text of a credential file
CredsJson(creds, project_id) ==
  FileJson(TRUE, project_id, creds.token, 0, creds.refresh_token,
           IF creds.expired THEN "past" ELSE "future")

\* pos is the place os.listdir gives the file when the call creates it
save_credentials(files, creds, project_id, pos) ==
  IF project_id # NoProject
  THEN WriteFile(files, PathOf(project_id), CredsJson(creds, project_id), pos)
  ELSE files

\* `creds.expired and creds.refresh_token`
NeedsRefresh(creds) == creds.expired /\ creds.refresh_token # ""

\* creds after creds.refresh(GoogleAuthRequest()) got access token `token`
Refreshed(creds, token) == [creds EXCEPT !.token = token, !.expired = FALSE]

(***************************************************************************)
(* Upstream answers.                                                       *)
(***************************************************************************)
Tier(id, isDefault, userDefined) ==
  [present |-> TRUE, id |-> id, isDefault |-> isDefault,
   userDefinedCloudaicompanionProject |-> userDefined]

\* an absent currentTier
NoTier ==
  [present |-> FALSE, id |-> "", isDefault |-> FALSE,
   userDefinedCloudaicompanionProject |-> FALSE]

\* the tier onboard_user makes up when no allowed tier is the default
LegacyTier == Tier("legacy-tier", FALSE, TRUE)

LoadAnswer(status, currentTier, allowedTiers) ==
  [status |-> status, currentTier |-> currentTier, allowedTiers |-> allowedTiers]

\* answers of v1internal:loadCodeAssist to onboard_user
\* ("error" is a failure that is not an HTTP status: no connection, or a body that
\* is not JSON)
LoadAnswers ==
  { LoadAnswer("http_error", NoTier, <<>>),
    LoadAnswer("error", NoTier, <<>>),
    LoadAnswer("ok", Tier("free-tier", FALSE, FALSE), <<>>),
    LoadAnswer("ok", Tier("standard-tier", FALSE, TRUE), <<>>),
    LoadAnswer("ok", NoTier, << Tier("standard-tier", FALSE, TRUE),
                                Tier("free-tier", TRUE, FALSE) >>),
    LoadAnswer("ok", NoTier, << Tier("standard-tier", FALSE, TRUE) >>) }

\* answers of v1internal:onboardUser: an HTTP error status, another failure of
\* the call ("error": no connection, a body that is not JSON or not an object),
\* a reply with done, or a reply without it
OnboardAnswers == {"http_error", "error", "done", "pending"}

\* answers of v1internal:loadCodeAssist to the discovery probe: an HTTP error
\* status, another failure of the call ("error"), or the cloudaicompanionProject
\* of the reply (NoProject when the field is absent or empty)
DiscoveryAnswers ==
  {[status |-> st, cloudaicompanionProject |-> NoProject] : st \in {"http_error", "error"}}
    \cup {[status |-> "ok", cloudaicompanionProject |-> p] : p \in Projects \cup {NoProject}}

\* an upstream call: its endpoint, project and tier id, and the value of
\* onboarding_complete when it was sent
UpstreamCall(kind, project_id, tier, flag) ==
  [kind |-> kind, project_id |-> project_id, tier |-> tier, flag |-> flag]

(***************************************************************************)
(* get_user_project_id, auth.py:360-435.                                   *)
(***************************************************************************)
\* What one run of a coroutine up to its next suspension leaves: the credentials
\* object, how the call stands ("returned", "raised", or the suspension it waits
\* in), its result or error, whether a refresh was tried, and the calls sent.
Run(creds, outcome, ret, error, refresh, calls) ==
  [creds |-> creds, outcome |-> outcome, ret |-> ret, error |-> error,
   refresh |-> refresh, calls |-> calls]

\* auth.py:390-399: refresh before discovery; a failure is logged and ignored
project_refresh(creds, refresh_ok, token) ==
  IF ~NeedsRefresh(creds) THEN [creds |-> creds, refresh |-> "none"]
  ELSE IF refresh_ok THEN [creds |-> Refreshed(creds, token), refresh |-> "ok"]
  ELSE [creds |-> creds, refresh |-> "failed"]

\* the call up to the discovery request (auth.py:364-420)
get_user_project_id(creds, env, refresh_ok, token) ==
  IF creds.project_id # NoProject
  THEN Run(creds, "returned", creds.project_id, "", "none", {})
  ELSE IF env # NoProject
  THEN Run(creds, "returned", env, "", "none", {})
  ELSE
    LET r == project_refresh(creds, refresh_ok, token)
    IN  IF r.creds.token = 0
        THEN Run(r.creds, "raised", NoProject, "no_token", r.refresh, {})
        ELSE Run(r.creds, "discovering", NoProject, "", r.refresh,
                 {UpstreamCall("discover", NoProject, "", FALSE)})

\* mutant: an answer without cloudaicompanionProject is returned as it is
discovery_answered_without_field(run, answer) ==
  IF answer.status = "http_error"
  THEN [run EXCEPT !.outcome = "raised", !.error = "discovery_http"]
  ELSE IF answer.status = "error"
  THEN [run EXCEPT !.outcome = "raised", !.error = "discovery"]
  ELSE [run EXCEPT !.outcome = "returned", !.ret = answer.cloudaicompanionProject]

\* the rest of the call, once the discovery request is answered (auth.py:421-435)
discovery_answered(run, answer) ==
  IF answer.status = "http_error"
  THEN [run EXCEPT !.outcome = "raised", !.error = "discovery_http"]
  ELSE IF answer.status = "error" \/ answer.cloudaicompanionProject = NoProject
  THEN [run EXCEPT !.outcome = "raised", !.error = "discovery"]
  ELSE [run EXCEPT !.outcome = "returned", !.ret = answer.cloudaicompanionProject]

(***************************************************************************)
(* onboard_user, auth.py:280-358.                                          *)
(***************************************************************************)
\* the last index of sequence s whose element satisfies P, 0 when there is none
LastIndex(s, P(_)) ==
  IF \E i \in DOMAIN s : P(s[i])
  THEN CHOOSE i \in DOMAIN s : P(s[i]) /\ \A j \in (i + 1)..Len(s) : ~P(s[j])
  ELSE 0

\* mutant: the last default tier of the list is taken (no break)
select_tier_last_default(load_data) ==
  IF load_data.currentTier.present THEN load_data.currentTier
  ELSE LET i == LastIndex(load_data.allowedTiers, LAMBDA t : t.isDefault)
       IN  IF i = 0 THEN LegacyTier ELSE load_data.allowedTiers[i]

\* auth.py:311-326
select_tier(load_data) ==
  IF load_data.currentTier.present THEN load_data.currentTier
  ELSE LET i == FirstIndex(load_data.allowedTiers, LAMBDA t : t.isDefault)
       IN  IF i = 0 THEN LegacyTier ELSE load_data.allowedTiers[i]

\* what a call has read from its loadCodeAssist answer: the status of the answer,
\* whether it carried a currentTier, whether the tier chosen from it requires a
\* user-defined project, and its cloudaicompanionProject
LoadSeen(status, current, required, project) ==
  [status |-> status, current |-> current, required |-> required, project |-> project]

NoLoad == LoadSeen("none", FALSE, FALSE, NoProject)

\* no onboard call was answered
NoLro == "none"

\* What one run of onboard_user up to its next suspension leaves: as Run, with the
\* tier id of the onboard payload, the new value of onboarding_complete, whether
\* this run saw the handshake succeed, what the call read from its load answer,
\* and the answer to the onboard call of this run (NoLro when it sent none). error
\* is the wrapper the caller gets: "refresh" (auth.py:291), "http"
\* (auth.py:355-356) or "unexpected" (auth.py:357-358).
OnboardRun(creds, outcome, error, refresh, calls, tier, flag, completed, load, lro) ==
  [creds |-> creds, outcome |-> outcome, ret |-> NoProject, error |-> error,
   refresh |-> refresh, calls |-> calls, tier |-> tier, flag |-> flag,
   completed |-> completed, load |-> load, lro |-> lro]

\* mutant: a failed refresh is ignored, as before discovery
onboard_refresh_ignoring_failure(creds, refresh_ok, token) ==
  IF ~NeedsRefresh(creds) THEN [creds |-> creds, refresh |-> "none", raised |-> FALSE]
  ELSE IF refresh_ok
  THEN [creds |-> Refreshed(creds, token), refresh |-> "ok", raised |-> FALSE]
  ELSE [creds |-> creds, refresh |-> "failed", raised |-> FALSE]

\* auth.py:286-291: refresh before the handshake; a failure is raised
onboard_refresh(creds, refresh_ok, token) ==
  IF ~NeedsRefresh(creds) THEN [creds |-> creds, refresh |-> "none", raised |-> FALSE]
  ELSE IF refresh_ok
  THEN [creds |-> Refreshed(creds, token), refresh |-> "ok", raised |-> FALSE]
  ELSE [creds |-> creds, refresh |-> "failed", raised |-> TRUE]

\* mutant: an HTTP error of the onboard call marks onboarding as complete
onboard_poll_failure_completes(creds, project_id, tier, flag, refresh, calls, seen, answer) ==
  LET sent == calls \cup {UpstreamCall("onboard", project_id, tier, flag)}
  IN  IF answer = "http_error"
      THEN OnboardRun(creds, "raised", "http", refresh, sent, tier, TRUE, FALSE, seen,
                      answer)
      ELSE IF answer = "error"
      THEN OnboardRun(creds, "raised", "unexpected", refresh, sent, tier, TRUE, FALSE,
                      seen, answer)
      ELSE IF answer = "done"
      THEN OnboardRun(creds, "returned", "", refresh, sent, tier, TRUE, TRUE, seen,
                      answer)
      ELSE OnboardRun(creds, "sleeping", "", refresh, sent, tier, flag, FALSE, seen,
                      answer)

\* mutant: onboarding_complete is set as soon as the onboard call is answered
onboard_poll_completes_at_once(creds, project_id, tier, flag, refresh, calls, seen, answer) ==
  LET sent == calls \cup {UpstreamCall("onboard", project_id, tier, flag)}
  IN  IF answer = "http_error"
      THEN OnboardRun(creds, "raised", "http", refresh, sent, tier, flag, FALSE, seen,
                      answer)
      ELSE IF answer = "error"
      THEN OnboardRun(creds, "raised", "unexpected", refresh, sent, tier, flag, FALSE,
                      seen, answer)
      ELSE IF answer = "done"
      THEN OnboardRun(creds, "returned", "", refresh, sent, tier, TRUE, TRUE, seen,
                      answer)
      ELSE OnboardRun(creds, "sleeping", "", refresh, sent, tier, TRUE, FALSE, seen,
                      answer)

\* mutant: every pass of the loop sends the load call again before the onboard call
onboard_poll_reloads(creds, project_id, tier, flag, refresh, calls, seen, answer) ==
  LET sent == calls \cup {UpstreamCall("load", project_id, "", flag),
                          UpstreamCall("onboard", project_id, tier, flag)}
  IN  IF answer = "http_error"
      THEN OnboardRun(creds, "raised", "http", refresh, sent, tier, flag, FALSE, seen,
                      answer)
      ELSE IF answer = "error"
      THEN OnboardRun(creds, "raised", "unexpected", refresh, sent, tier, flag, FALSE,
                      seen, answer)
      ELSE IF answer = "done"
      THEN OnboardRun(creds, "returned", "", refresh, sent, tier, TRUE, TRUE, seen,
                      answer)
      ELSE OnboardRun(creds, "sleeping", "", refresh, sent, tier, flag, FALSE, seen,
                      answer)

\* one pass of the poll loop (auth.py:341-358): the call is sent, then the answer
\* ends the call or puts it to sleep
onboard_poll(creds, project_id, tier, flag, refresh, calls, seen, answer) ==
  LET sent == calls \cup {UpstreamCall("onboard", project_id, tier, flag)}
  IN  IF answer = "http_error"
      THEN OnboardRun(creds, "raised", "http", refresh, sent, tier, flag, FALSE, seen,
                      answer)
      ELSE IF answer = "error"
      THEN OnboardRun(creds, "raised", "unexpected", refresh, sent, tier, flag, FALSE,
                      seen, answer)
      ELSE IF answer = "done"
      THEN OnboardRun(creds, "returned", "", refresh, sent, tier, TRUE, TRUE, seen,
                      answer)
      ELSE OnboardRun(creds, "sleeping", "", refresh, sent, tier, flag, FALSE, seen,
                      answer)

\* mutant: a currentTier in the load answer does not end the call
already_onboarded_ignored(load_data) == FALSE

\* auth.py:331: `if load_data.get("currentTier")`
already_onboarded(load_data) == load_data.currentTier.present

\* the handshake up to its first suspension (auth.py:286-354)
onboard_handshake(creds, project_id, flag, refresh_ok, token, load_answer, onboard_answer) ==
  LET r == onboard_refresh(creds, refresh_ok, token)
      load == {UpstreamCall("load", project_id, "", flag)}
      tier == select_tier(load_answer)
      seen == LoadSeen("ok", load_answer.currentTier.present,
                       tier.userDefinedCloudaicompanionProject, NoProject)
  IN  IF r.raised
      THEN OnboardRun(creds, "raised", "refresh", r.refresh, {}, "", flag, FALSE,
                      NoLoad, NoLro)
      ELSE IF load_answer.status = "http_error"
      THEN OnboardRun(r.creds, "raised", "http", r.refresh, load, "", flag, FALSE,
                      LoadSeen("http_error", FALSE, FALSE, NoProject), NoLro)
      ELSE IF load_answer.status = "error"
      THEN OnboardRun(r.creds, "raised", "unexpected", r.refresh, load, "", flag,
                      FALSE, LoadSeen("error", FALSE, FALSE, NoProject), NoLro)
      ELSE IF tier.userDefinedCloudaicompanionProject /\ project_id = NoProject
      THEN OnboardRun(r.creds, "raised", "unexpected", r.refresh, load, "", flag,
                      FALSE, seen, NoLro)
      ELSE IF already_onboarded(load_answer)
      THEN OnboardRun(r.creds, "returned", "", r.refresh, load, "", TRUE, TRUE, seen,
                      NoLro)
      ELSE onboard_poll(r.creds, project_id, tier.id, flag, r.refresh, load, seen,
                        onboard_answer)

\* mutant: the call does not look at onboarding_complete
onboard_user_unchecked(creds, project_id, flag, refresh_ok, token, load_answer, onboard_answer) ==
  onboard_handshake(creds, project_id, flag, refresh_ok, token, load_answer,
                    onboard_answer)

\* the call up to its first suspension (auth.py:280-354)
onboard_user(creds, project_id, flag, refresh_ok, token, load_answer, onboard_answer) ==
  IF flag
  THEN OnboardRun(creds, "returned", "", "none", {}, "", flag, FALSE, NoLoad, NoLro)
  ELSE onboard_handshake(creds, project_id, flag, refresh_ok, token, load_answer,
                         onboard_answer)

(***************************************************************************)
(* Requests: each loads credentials, then resolves its project id and      *)
(* onboards, as the lifespan handler of main.py:56-61 does.                *)
(***************************************************************************)
Requests == {"r1", "r2"}

\* project_id is the project id the request holds: the one get_user_project_id
\* returned, then the one handed to onboard_user; get is the get_credentials
\* call of the request while it runs (pc "loading")
IdleRequest ==
  [pc |-> "idle", get |-> NotResolved, creds |-> NoneCreds, op |-> "none",
   project_id |-> NoProject, outcome |-> "none", error |-> "", refresh |-> "none",
   calls |-> {}, tier |-> "", load |-> NoLoad, lro |-> NoLro]

\* the request after a run of one of its calls
AfterRun(op, project_id, run, tier, load, lro) ==
  [pc |-> IF run.outcome \in {"returned", "raised"} THEN "ready" ELSE run.outcome,
   get |-> NotResolved, creds |-> run.creds, op |-> op, project_id |-> project_id,
   outcome |-> run.outcome, error |-> run.error,
   refresh |-> run.refresh, calls |-> run.calls, tier |-> tier, load |-> load,
   lro |-> lro]

\* the token endpoint grants the refresh or refuses it
RefreshAnswers == IF token_seq < 2 + MaxRefreshes THEN BOOLEAN ELSE {FALSE}

\* the token endpoint is asked only for credentials that are due for a refresh
RefreshAnswersFor(creds) == IF NeedsRefresh(creds) THEN RefreshAnswers ELSE {FALSE}

\* the load call is sent only while onboarding_complete is False
LoadAnswersNow ==
  IF onboarding_complete THEN {LoadAnswer("http_error", NoTier, <<>>)} ELSE LoadAnswers

\* the onboard call is sent only after a load answer without a currentTier
OnboardAnswersAfter(load_answer) ==
  IF load_answer.status = "ok" /\ ~already_onboarded(load_answer)
  THEN OnboardAnswers ELSE {"pending"}

\* the files of the auth folder while requests run: both tokens have expired
OnboardStore ==
  << [path |-> PathOf("p1"), data |-> FileJson(TRUE, "p1", 1, 0, "rt", "past")],
     [path |-> PathOf("p2"), data |-> FileJson(TRUE, "p2", 2, 0, "rt", "past")] >>

InitOnboardIdle ==
  /\ env_project = NoProject
  /\ onboarding_complete = FALSE
  /\ user_project_id = NoProject
  /\ req = [r \in Requests |-> IdleRequest]
  /\ token_seq = 2
  /\ handshakes = {}

InitOnboard ==
  /\ InitCooldown
  /\ InitCallIdle
  /\ auth_files = OnboardStore
  /\ resolved = NotResolved
  /\ uploads = NoUploads
  /\ env_project \in {NoProject, "p2"}
  /\ onboarding_complete = FALSE
  /\ user_project_id = NoProject
  /\ req = [r \in Requests |-> IdleRequest]
  /\ token_seq = 2
  /\ handshakes = {}

\* the request at a suspension of its get_credentials call, or after the call:
\* main.py:56-58 goes on with credentials that are truthy, and does nothing
\* more without
AfterGet(get) ==
  IF InProgress(get) THEN [IdleRequest EXCEPT !.pc = "loading", !.get = get]
  ELSE IF get.creds.loaded THEN [IdleRequest EXCEPT !.pc = "ready", !.creds = get.creds]
  ELSE IdleRequest

\* creds = await get_credentials(project_id=...), up to the first file it opens
LoadCredentials(r, project_id) ==
  /\ req[r].pc = "idle"
  /\ req' = [req EXCEPT ![r] = AfterGet(get_credentials_begin(auth_files, project_id))]
  /\ UNCHANGED <<callVars, cooldownVars, poolVars, env_project, onboarding_complete,
                 user_project_id, token_seq, handshakes>>

\* the open, the read or the close the get_credentials call of the request waits
\* for is done
CredentialsStep(r) ==
  /\ req[r].pc = "loading"
  /\ req' = [req EXCEPT ![r] = AfterGet(get_credentials_resume(req[r].get, auth_files))]
  /\ UNCHANGED <<callVars, cooldownVars, poolVars, env_project, onboarding_complete,
                 user_project_id, token_seq, handshakes>>

\* what an upload puts in the place of the credential file of a project: a
\* file with no token (upload_auth checks the file name only)
UploadedData(project_id) == FileJson(TRUE, project_id, 0, 0, "rt", "future")

\* the requests after a write to the folder
RequestsUploaded ==
  [r \in Requests |->
     IF req[r].pc = "loading" THEN [req[r] EXCEPT !.get = Uploaded(@)] ELSE req[r]]

\* POST /upload_auth while requests run, dashboard.py:188-196, up to its first
\* suspension: the credential file of the project is emptied.  Each file is
\* uploaded once.
OnboardUploadOpen(project_id) ==
  /\ \E i \in DOMAIN auth_files :
       /\ auth_files[i] = OnboardStore[i]
       /\ auth_files[i].path = PathOf(project_id)
  /\ auth_files' = WriteFile(auth_files, PathOf(project_id), NoData, 1)
  /\ uploads' = [uploads EXCEPT ![PathOf(project_id)] = @ + 1]
  /\ req' = RequestsUploaded
  /\ UNCHANGED <<callVars, cooldownVars, resolved, env_project, onboarding_complete,
                 user_project_id, token_seq, handshakes>>

\* the content of the upload is written and the file is closed
OnboardUploadWrite(project_id) ==
  /\ uploads[PathOf(project_id)] > 0
  /\ auth_files' = WriteFile(auth_files, PathOf(project_id), UploadedData(project_id), 1)
  /\ uploads' = [uploads EXCEPT ![PathOf(project_id)] = @ - 1]
  /\ req' = RequestsUploaded
  /\ UNCHANGED <<callVars, cooldownVars, resolved, env_project, onboarding_complete,
                 user_project_id, token_seq, handshakes>>

\* the token counter after a run
TokenSeqAfter(run) == IF run.refresh = "ok" THEN token_seq + 1 ELSE token_seq

\* `await save_credentials(creds)` after a refresh that succeeded in this run
SavedAfter(run) ==
  IF run.refresh = "ok" THEN save_credentials(auth_files, run.creds, NoProject, 1)
  ELSE auth_files

\* proj_id = await get_user_project_id(creds), up to the discovery request
StartProject(r) ==
  /\ req[r].pc = "ready"
  /\ req[r].op = "none"
  /\ \E refresh_ok \in RefreshAnswersFor(req[r].creds) :
       LET run == get_user_project_id(req[r].creds, env_project, refresh_ok, token_seq + 1)
       IN  /\ req' = [req EXCEPT ![r] = AfterRun("project", run.ret, run, "", NoLoad, NoLro)]
           /\ token_seq' = TokenSeqAfter(run)
           /\ auth_files' = SavedAfter(run)
           /\ user_project_id' = IF run.outcome = "returned" THEN run.ret
                                 ELSE user_project_id
  /\ UNCHANGED <<callVars, cooldownVars, resolved, uploads, env_project,
                 onboarding_complete, handshakes>>

\* the discovery request is answered
DiscoveryAnswered(r) ==
  /\ req[r].pc = "discovering"
  /\ \E answer \in DiscoveryAnswers :
       LET run == discovery_answered(
                     Run(req[r].creds, req[r].outcome, NoProject, req[r].error,
                         req[r].refresh, req[r].calls), answer)
       IN  /\ req' = [req EXCEPT ![r] =
                       AfterRun("project", run.ret, run, "",
                                LoadSeen(answer.status, FALSE, FALSE,
                                         answer.cloudaicompanionProject), NoLro)]
           /\ user_project_id' = IF run.outcome = "returned" THEN run.ret
                                 ELSE user_project_id
  /\ UNCHANGED <<callVars, cooldownVars, poolVars, env_project, onboarding_complete,
                 token_seq,
                 handshakes>>

\* the globals after a run of onboard_user for project_id; the refresh belongs to
\* the run that began the call
OnboardEffects(r, project_id, run, began) ==
  /\ req' = [req EXCEPT ![r] = AfterRun("onboard", project_id, run, run.tier, run.load,
                                               run.lro)]
  /\ onboarding_complete' = run.flag
  /\ handshakes' = IF run.completed THEN handshakes \cup {project_id} ELSE handshakes
  /\ token_seq' = IF began THEN TokenSeqAfter(run) ELSE token_seq
  /\ auth_files' = IF began THEN SavedAfter(run) ELSE auth_files

\* await onboard_user(creds, project_id), up to its first suspension; the caller
\* hands over the project id it holds, or none
StartOnboard(r, project_id) ==
  /\ req[r].pc = "ready"
  /\ req[r].op # "none"
  /\ project_id \in {req[r].project_id, NoProject}
  /\ \E refresh_ok \in IF onboarding_complete THEN {FALSE}
                         ELSE RefreshAnswersFor(req[r].creds),
        load_answer \in LoadAnswersNow :
     \E onboard_answer \in OnboardAnswersAfter(load_answer) :
       OnboardEffects(r, project_id,
          onboard_user(req[r].creds, project_id, onboarding_complete, refresh_ok,
                       token_seq + 1, load_answer, onboard_answer), TRUE)
  /\ UNCHANGED <<callVars, cooldownVars, resolved, uploads, env_project,
                 user_project_id>>

\* asyncio.sleep(5) is over: the next pass of the poll loop
PollOnboard(r) ==
  /\ req[r].pc = "sleeping"
  /\ \E onboard_answer \in OnboardAnswers :
       OnboardEffects(r, req[r].project_id,
          onboard_poll(req[r].creds, req[r].project_id, req[r].tier,
                       onboarding_complete, req[r].refresh, req[r].calls, req[r].load,
                       onboard_answer),
          FALSE)
  /\ UNCHANGED <<callVars, cooldownVars, resolved, uploads, env_project,
                 user_project_id>>

NextOnboard ==
  \/ \E r \in Requests, project_id \in Projects : LoadCredentials(r, project_id)
  \/ \E r \in Requests : CredentialsStep(r)
  \/ \E project_id \in UploadedProjects : OnboardUploadOpen(project_id)
  \/ \E project_id \in UploadedProjects : OnboardUploadWrite(project_id)
  \/ \E r \in Requests : StartProject(r)
  \/ \E r \in Requests : DiscoveryAnswered(r)
  \/ \E r \in Requests, project_id \in Projects \cup {NoProject} : StartOnboard(r, project_id)
  \/ \E r \in Requests : PollOnboard(r)

(***************************************************************************)
(* onboard_user on the tiers a load answer may list.                       *)
(***************************************************************************)
\* the tiers upstream may name
TierSamples ==
  {Tier(id, isDefault, userDefined) :
     id \in {"free-tier", "standard-tier"}, isDefault \in BOOLEAN,
     userDefined \in BOOLEAN}

\* load answers with or without a currentTier and with up to MaxTiers allowed tiers
TierAnswers ==
  {LoadAnswer("ok", current, allowed) :
     current \in {NoTier} \cup TierSamples,
     allowed \in UNION {[1..k -> TierSamples] : k \in 0..MaxTiers}}

\* credentials with a token that has not expired
FreshCreds ==
  [loaded |-> TRUE, token |-> 1, refresh_token |-> "rt", expired |-> FALSE,
   project_id |-> NoProject, origin |-> PathOf("p1")]

InitTier ==
  /\ InitCooldown
  /\ InitPoolIdle
  /\ InitOnboardIdle
  /\ call \in {[fn |-> "onboard_user", creds |-> FreshCreds, project_id |-> p,
                 load_answer |-> la, onboard_answer |-> oa] :
                 p \in {NoProject, "p1"}, la \in TierAnswers, oa \in OnboardAnswers}
  /\ result = NotReturned

\* mutant: the loop does not sleep between two passes
poll_sleep_none(run) == 0

\* auth.py:354: the ticks a run that ended in asyncio.sleep(5) has to sleep
poll_sleep(run) == IF run.outcome = "sleeping" THEN poll_interval * TicksPerSec ELSE 0

\* the call after a run: what the run left, the ticks its sleep has yet to last,
\* the ticks it has slept since its last onboard call, and the onboard calls it
\* has sent, counted up to MaxPolls
Polling(run, polls) ==
  [done |-> TRUE, value |-> run, sleep_left |-> poll_sleep(run), waited |-> 0,
   polls |-> Min(polls, MaxPolls)]

\* onboard_user runs, while onboarding_complete is False, up to its first
\* suspension
OnboardUser ==
  /\ call.fn = "onboard_user"
  /\ ~result.done
  /\ LET run == onboard_user(call.creds, call.project_id, onboarding_complete,
                             FALSE, token_seq + 1, call.load_answer,
                             call.onboard_answer)
     IN  /\ result' = Polling(run, IF run.lro = NoLro THEN 0 ELSE 1)
         /\ onboarding_complete' = run.flag
         /\ handshakes' = IF run.completed THEN handshakes \cup {call.project_id}
                          ELSE handshakes
  /\ UNCHANGED <<cooldownVars, poolVars, env_project, user_project_id, req, token_seq,
                 call>>

NextTier == OnboardUser

(***************************************************************************)
(* The poll loop of one onboard_user call, auth.py:341-354, with its       *)
(* sleeps.                                                                 *)
(***************************************************************************)
\* d ticks of the sleep go by
Slept(d) ==
  /\ call.fn = "onboard_user"
  /\ result.done
  /\ result.value.outcome = "sleeping"
  /\ d <= result.sleep_left
  /\ result' = [result EXCEPT !.sleep_left = @ - d, !.waited = @ + d]
  /\ UNCHANGED <<cooldownVars, poolVars, onboardVars, call>>

\* the sleep is over: the next pass of the loop, whose onboard call gets answer
OnboardPolled(answer) ==
  /\ call.fn = "onboard_user"
  /\ result.done
  /\ result.value.outcome = "sleeping"
  /\ result.sleep_left = 0
  /\ LET run == onboard_poll(result.value.creds, call.project_id, result.value.tier,
                             onboarding_complete, result.value.refresh,
                             result.value.calls, result.value.load, answer)
     IN  /\ result' = Polling(run, result.polls + 1)
         /\ onboarding_complete' = run.flag
         /\ handshakes' = IF run.completed THEN handshakes \cup {call.project_id}
                          ELSE handshakes
  /\ UNCHANGED <<cooldownVars, poolVars, env_project, user_project_id, req, token_seq,
                 call>>

NextPoll ==
  \/ OnboardUser
  \/ \E d \in 1..(poll_interval * TicksPerSec) : Slept(d)
  \/ \E answer \in OnboardAnswers : OnboardPolled(answer)

(***************************************************************************)
(* get_user_project_id on the credentials objects a caller may hand over.  *)
(***************************************************************************)
\* credentials objects: with or without an access token, a refresh token, a
\* project_id attribute (auth.py:367), expired or not
CallerCreds ==
  { [loaded |-> TRUE, token |-> t, refresh_token |-> rt, expired |-> e,
     project_id |-> p, origin |-> PathOf("p1")] :
      t \in {0, 1}, rt \in {"", "rt"}, e \in BOOLEAN, p \in {NoProject, "p1"} }

InitDiscovery ==
  /\ InitCooldown
  /\ InitCallIdle
  /\ auth_files = OnboardStore
  /\ resolved = NotResolved
  /\ uploads = NoUploads
  /\ env_project \in {NoProject, "p2"}
  /\ onboarding_complete = FALSE
  /\ user_project_id = NoProject
  /\ req \in [Requests -> {[IdleRequest EXCEPT !.pc = "ready", !.creds = c] :
                              c \in CallerCreds}]
  /\ token_seq = 2
  /\ handshakes = {}

NextDiscovery ==
  \/ \E r \in Requests : StartProject(r)
  \/ \E r \in Requests : DiscoveryAnswered(r)

(***************************************************************************)
(* openai_request_to_gemini, openai_transformers.py:19-52: the contents.   *)
(* Text is a string; an image URL is a sequence of characters, because the *)
(* code splits it.                                                         *)
(***************************************************************************)
RECURSIVE Split(_, _)
\* str.split(sep) for a one-character sep: the pieces between the separators
Split(str, sep) ==
  IF \A i \in DOMAIN str : str[i] # sep THEN <<str>>
  ELSE LET i == CHOOSE k \in DOMAIN str :
                  str[k] = sep /\ \A j \in 1..(k - 1) : str[j] # sep
       IN  <<SubSeq(str, 1, i - 1)>> \o Split(SubSeq(str, i + 1, Len(str)), sep)

\* a part of a Gemini content
GeminiPart(kind, text, mimeType, data) ==
  [kind |-> kind, text |-> text, mimeType |-> mimeType, data |-> data]

\* openai_transformers.py:39-47: the three unpacking assignments; each raises
\* ValueError unless its split gives exactly two pieces
parse_image_url(image_url) ==
  LET a == Split(image_url, ";")
      b == Split(a[1], ":")
      c == Split(a[2], ",")
  IN  IF Len(a) # 2 THEN [ValueError |-> TRUE]
      ELSE IF Len(b) # 2 THEN [ValueError |-> TRUE]
      ELSE IF Len(c) # 2 THEN [ValueError |-> TRUE]
      ELSE [ValueError |-> FALSE, part |-> GeminiPart("inlineData", "", b[2], c[2])]

\* parts of an OpenAI content list: the type, the text ("absent" flags a part
\* without the key) and the url of image_url (<<>> when the key is absent or the
\* string is empty)
OpenAIPart(type, has_text, text, url) ==
  [type |-> type, has_text |-> has_text, text |-> text, url |-> url]

\* openai_transformers.py:33-49: what one part appends to parts
translate_part(part) ==
  IF part.type = "text"
  THEN <<GeminiPart("text", IF part.has_text THEN part.text ELSE "", <<>>, <<>>)>>
  ELSE IF part.type = "image_url"
  THEN IF part.url = <<>> THEN <<>>
       ELSE LET r == parse_image_url(part.url)
            IN  IF r.ValueError THEN <<>> ELSE <<r.part>>
  ELSE <<>>

RECURSIVE translate_parts_until_error(_)
\* mutant: a part that fails the parse ends the walk (break for continue)
translate_parts_until_error(content) ==
  IF content = <<>> THEN <<>>
  ELSE IF Head(content).type = "image_url" /\ Head(content).url # <<>>
          /\ parse_image_url(Head(content).url).ValueError
  THEN <<>>
  ELSE translate_part(Head(content)) \o translate_parts_until_error(Tail(content))

RECURSIVE translate_parts(_)
\* openai_transformers.py:31-49: the walk over message.content
translate_parts(content) ==
  IF content = <<>> THEN <<>>
  ELSE translate_part(Head(content)) \o translate_parts(Tail(content))

\* openai_transformers.py:25-52: one message; message.content is a list (content)
\* or a string (text)
translate_message(message) ==
  [role |-> IF message.role = "assistant" THEN "model"
            ELSE IF message.role = "system" THEN "user" ELSE message.role,
   parts |-> IF message.is_list THEN translate_parts(message.content)
             ELSE <<GeminiPart("text", message.text, <<>>, <<>>)>>]

\* openai_transformers.py:23-52: the contents of the payload, one per message
\* (the generation config, safety settings and model name are left out)
openai_request_to_gemini(openai_request) ==
  [contents |-> [i \in DOMAIN openai_request.messages |->
                   translate_message(openai_request.messages[i])]]

\* the characters of an image URL: the three delimiters and any other one
UrlChars == {"x", ":", ";", ","}

\* every URL of up to n characters
UrlsUpTo(n) == UNION {[1..k -> UrlChars] : k \in 0..n}

\* data:image/png;base64,AAAA and URLs that fail one of the three splits
UrlSamples ==
  { <<"x", ":", "x", ";", "x", ",", "x">>,
    <<"x", ":", "x", ";", "x", ";", "x", ",", "x">>,
    <<"x", ":", "x", ";", "x">>,
    <<"x", ";", "x", ",", "x">> }

PartSamples ==
  {OpenAIPart("text", TRUE, "hi", <<>>), OpenAIPart("text", FALSE, "", <<>>),
   OpenAIPart("image_url", FALSE, "", <<>>), OpenAIPart("input_audio", FALSE, "", <<>>)}
    \cup {OpenAIPart("image_url", FALSE, "", u) : u \in UrlSamples}

\* the content lists tried: up to MaxContentParts sample parts, and a text part
\* followed by an image part with any URL of up to MaxUrlLen characters
ContentLists ==
  UNION {[1..k -> PartSamples] : k \in 0..MaxContentParts}
    \cup {<<OpenAIPart("text", TRUE, "hi", <<>>), OpenAIPart("image_url", FALSE, "", u)>> :
            u \in UrlsUpTo(MaxUrlLen)}

Messages ==
  {[role |-> r, is_list |-> TRUE, content |-> c, text |-> ""] :
      r \in {"user", "assistant", "system"}, c \in ContentLists}
    \cup {[role |-> r, is_list |-> FALSE, content |-> <<>>, text |-> "hi"] :
            r \in {"user", "assistant", "system"}}

InitRequest ==
  /\ InitCooldown
  /\ InitPoolIdle
  /\ InitOnboardIdle
  /\ call \in {[fn |-> "openai_request_to_gemini", arg |-> [messages |-> <<m>>]] :
                 m \in Messages}
  /\ result = NotReturned

\* the request, of one message, is translated
OpenaiRequestToGemini ==
  /\ call.fn = "openai_request_to_gemini"
  /\ ~result.done
  /\ result' = [done |-> TRUE, value |-> openai_request_to_gemini(call.arg)]
  /\ UNCHANGED <<cooldownVars, poolVars, onboardVars, call>>

NextRequest == OpenaiRequestToGemini

(***************************************************************************)
(* gemini_response_to_openai and gemini_stream_chunk_to_openai,            *)
(* openai_transformers.py:93-179.                                          *)
(***************************************************************************)
\* None, as a finish reason
Null == "null"

\* a finishReason key that is absent from the candidate
NoReason == "absent"

\* mutant: RECITATION is not mapped
_map_finish_reason_without_recitation(gemini_reason) ==
  IF gemini_reason = "STOP" THEN "stop"
  ELSE IF gemini_reason = "MAX_TOKENS" THEN "length"
  ELSE IF gemini_reason = "SAFETY" THEN "content_filter"
  ELSE Null

\* _map_finish_reason, openai_transformers.py:170-179
_map_finish_reason(gemini_reason) ==
  IF gemini_reason = "STOP" THEN "stop"
  ELSE IF gemini_reason = "MAX_TOKENS" THEN "length"
  ELSE IF gemini_reason \in {"SAFETY", "RECITATION"} THEN "content_filter"
  ELSE Null

\* a part of a Gemini candidate: its text, when it has one, and its thought flag
\* (FALSE when the key is absent)
ReplyPart(has_text, text, thought) ==
  [has_text |-> has_text, text |-> text, thought |-> thought]

\* `not part.get("text")`: no text key, or an empty text
NoText(part) == ~part.has_text \/ part.text = ""

RECURSIVE response_text_prepending(_, _)
\* mutant: each text is put before what was accumulated (text + content)
response_text_prepending(parts, thought) ==
  IF parts = <<>> THEN ""
  ELSE IF NoText(Head(parts)) \/ Head(parts).thought # thought
  THEN response_text_prepending(Tail(parts), thought)
  ELSE response_text_prepending(Tail(parts), thought) \o Head(parts).text

RECURSIVE response_text(_, _)
\* openai_transformers.py:103-111: content (thought FALSE) or reasoning_content
\* (thought TRUE) of the parts
response_text(parts, thought) ==
  IF parts = <<>> THEN ""
  ELSE IF NoText(Head(parts)) \/ Head(parts).thought # thought
  THEN response_text(Tail(parts), thought)
  ELSE Head(parts).text \o response_text(Tail(parts), thought)

RECURSIVE chunk_text_without_skip(_, _)
\* mutant: the text of thought parts goes to content as well
chunk_text_without_skip(parts, thought) ==
  IF parts = <<>> THEN ""
  ELSE IF NoText(Head(parts)) \/ (thought /\ ~Head(parts).thought)
  THEN chunk_text_without_skip(Tail(parts), thought)
  ELSE Head(parts).text \o chunk_text_without_skip(Tail(parts), thought)

RECURSIVE chunk_text(_, _)
\* openai_transformers.py:142-150: the same walk, in the streaming translator
chunk_text(parts, thought) ==
  IF parts = <<>> THEN ""
  ELSE IF NoText(Head(parts)) \/ Head(parts).thought # thought
  THEN chunk_text(Tail(parts), thought)
  ELSE Head(parts).text \o chunk_text(Tail(parts), thought)

\* a candidate: content.parts and finishReason
Candidate(parts, finishReason) == [parts |-> parts, finishReason |-> finishReason]

\* openai_transformers.py:99-122: the choice of one candidate; content is always
\* a key of the message, reasoning_content only when it is not empty (the role
\* and the index are left out)
response_choice(candidate) ==
  LET content == response_text(candidate.parts, FALSE)
      reasoning_content == response_text(candidate.parts, TRUE)
  IN  [message |-> [has_content |-> TRUE, content |-> content,
                    has_reasoning_content |-> reasoning_content # "",
                    reasoning_content |-> reasoning_content],
       finish_reason |-> _map_finish_reason(candidate.finishReason)]

\* openai_transformers.py:93-129; uuid4 is what str(uuid.uuid4()) gives (the
\* timestamp and the model name are left out)
gemini_response_to_openai(gemini_response, uuid4) ==
  [id |-> uuid4, object |-> "chat.completion",
   choices |-> [i \in DOMAIN gemini_response.candidates |->
                  response_choice(gemini_response.candidates[i])]]

\* mutant: content and reasoning_content are keys of every delta
chunk_delta_with_empty_fields(content, reasoning_content) ==
  [has_content |-> TRUE, content |-> content,
   has_reasoning_content |-> TRUE, reasoning_content |-> reasoning_content]

\* openai_transformers.py:151-155: content and reasoning_content are keys of the
\* delta only when they are not empty
chunk_delta(content, reasoning_content) ==
  [has_content |-> content # "", content |-> content,
   has_reasoning_content |-> reasoning_content # "",
   reasoning_content |-> reasoning_content]

\* openai_transformers.py:138-160: the choice of one candidate of a chunk
chunk_choice(candidate) ==
  [delta |-> chunk_delta(chunk_text(candidate.parts, FALSE),
                         chunk_text(candidate.parts, TRUE)),
   finish_reason |-> _map_finish_reason(candidate.finishReason)]

\* openai_transformers.py:132-167
gemini_stream_chunk_to_openai(gemini_chunk, response_id) ==
  [id |-> response_id, object |-> "chat.completion.chunk",
   choices |-> [i \in DOMAIN gemini_chunk.candidates |->
                  chunk_choice(gemini_chunk.candidates[i])]]

\* a Gemini response or chunk: its candidates
GeminiResponse(candidates) == [candidates |-> candidates]

\* an id as str(uuid.uuid4()) gives for a response
Uuid4 == "uuid4"

\* the ids the caller may generate for a stream
ResponseIds == {"chatcmpl-1", "chatcmpl-2"}

FinishReasons == {"STOP", "MAX_TOKENS", "SAFETY", "RECITATION", "OTHER", NoReason}

ReplyPartSamples ==
  {ReplyPart(TRUE, "a", FALSE), ReplyPart(TRUE, "b", FALSE), ReplyPart(TRUE, "t", TRUE),
   ReplyPart(TRUE, "", FALSE), ReplyPart(FALSE, "", FALSE)}

\* the upstream replies: a candidate of up to MaxReplyParts parts
Replies ==
  {Candidate(ps, fr) :
     ps \in UNION {[1..k -> ReplyPartSamples] : k \in 0..MaxReplyParts},
     fr \in FinishReasons}

\* nothing of the reply has been streamed or translated
NothingSent ==
  [done |-> FALSE, sent |-> 0, ended |-> FALSE, streamed |-> <<>>, chunks |-> <<>>,
   responded |-> FALSE,
   response |-> gemini_response_to_openai(GeminiResponse(<<>>), Uuid4)]

InitResponse ==
  /\ InitCooldown
  /\ InitPoolIdle
  /\ InitOnboardIdle
  /\ call \in {[fn |-> "gemini_to_openai", arg |-> reply, response_id |-> id] :
                 reply \in Replies, id \in ResponseIds}
  /\ result = NothingSent

\* upstream streams the next n parts of the reply as one chunk, which is
\* translated with the response id of the stream; the last chunk carries the
\* finishReason
StreamChunk(n, is_last) ==
  LET parts == call.arg.parts
      chunk == Candidate(SubSeq(parts, result.sent + 1, result.sent + n),
                         IF is_last THEN call.arg.finishReason ELSE NoReason)
  IN  /\ call.fn = "gemini_to_openai"
      /\ ~result.ended
      /\ Len(result.chunks) < MaxChunks
      /\ result.sent + n <= Len(parts)
      /\ is_last <=> (result.sent + n = Len(parts))
      /\ result' = [result EXCEPT !.sent = @ + n, !.ended = is_last,
                                   !.streamed = Append(@, chunk),
                                   !.chunks = Append(@,
                                      gemini_stream_chunk_to_openai(
                                         GeminiResponse(<<chunk>>), call.response_id))]
      /\ UNCHANGED <<cooldownVars, poolVars, onboardVars, call>>

\* the same reply, not streamed, is translated
Response ==
  /\ call.fn = "gemini_to_openai"
  /\ ~result.responded
  /\ result' = [result EXCEPT !.responded = TRUE,
                               !.response = gemini_response_to_openai(
                                               GeminiResponse(<<call.arg>>), Uuid4)]
  /\ UNCHANGED <<cooldownVars, poolVars, onboardVars, call>>

NextResponse ==
  \/ \E n \in 0..MaxReplyParts, is_last \in BOOLEAN : StreamChunk(n, is_last)
  \/ Response

(***************************************************************************)
(* gemini_response_to_openai on responses of several candidates.           *)
(***************************************************************************)
\* candidates with content and reasoning in various orders, and without text
CandidateSamples ==
  {Candidate(ps, "STOP") :
     ps \in {<<>>,
             <<ReplyPart(TRUE, "a", FALSE)>>,
             <<ReplyPart(TRUE, "t", TRUE)>>,
             <<ReplyPart(TRUE, "a", FALSE), ReplyPart(TRUE, "t", TRUE),
               ReplyPart(TRUE, "b", FALSE), ReplyPart(TRUE, "u", TRUE)>>,
             <<ReplyPart(TRUE, "u", TRUE), ReplyPart(TRUE, "", TRUE),
               ReplyPart(TRUE, "b", FALSE), ReplyPart(TRUE, "t", TRUE),
               ReplyPart(TRUE, "a", FALSE)>>,
             <<ReplyPart(FALSE, "", TRUE), ReplyPart(TRUE, "", FALSE)>>}}

\* the responses tried: up to MaxCandidates sample candidates, and every reply
\* as the only candidate
GeminiResponses ==
  {GeminiResponse(cs) : cs \in UNION {[1..k -> CandidateSamples] : k \in 0..MaxCandidates}}
    \cup {GeminiResponse(<<reply>>) : reply \in Replies}

InitChoices ==
  /\ InitCooldown
  /\ InitPoolIdle
  /\ InitOnboardIdle
  /\ call \in {[fn |-> "gemini_response_to_openai", arg |-> gr] : gr \in GeminiResponses}
  /\ result = NotReturned

\* the response is translated
GeminiResponseToOpenai ==
  /\ call.fn = "gemini_response_to_openai"
  /\ ~result.done
  /\ result' = [done |-> TRUE, value |-> gemini_response_to_openai(call.arg, Uuid4)]
  /\ UNCHANGED <<cooldownVars, poolVars, onboardVars, call>>

NextChoices == GeminiResponseToOpenai

(***************************************************************************)
(* authenticate_user, auth.py:152-178.  Values are sequences of characters,*)
(* because the Basic credentials are split at a colon.                     *)
(***************************************************************************)
\* a value a request may carry: absent, or a string
Carried(present, value) == [present |-> present, value |-> value]

Absent == Carried(FALSE, <<>>)

\* the Authorization header: its scheme prefix ("Bearer ", "Basic ", "other" or
\* "absent"), and what follows it: the bearer token, or the Basic credentials
\* as base64.b64decode(...).decode('utf-8', "ignore") gives them (valid is FALSE
\* when b64decode raises)
Authorization(scheme, token, valid, decoded) ==
  [scheme |-> scheme, token |-> token, valid |-> valid, decoded |-> decoded]

\* mutant: the credentials are split at every colon
basic_password_split_all(decoded) ==
  LET pieces == Split(decoded, ":")
  IN  IF Len(pieces) # 2 THEN [ValueError |-> TRUE]
      ELSE [ValueError |-> FALSE, username |-> pieces[1], password |-> pieces[2]]

\* auth.py:169: `username, password = decoded_credentials.split(':', 1)`
basic_password(decoded) ==
  IF \A i \in DOMAIN decoded : decoded[i] # ":" THEN [ValueError |-> TRUE]
  ELSE LET i == CHOOSE k \in DOMAIN decoded :
                  decoded[k] = ":" /\ \A j \in 1..(k - 1) : decoded[j] # ":"
       IN  [ValueError |-> FALSE, username |-> SubSeq(decoded, 1, i - 1),
            password |-> SubSeq(decoded, i + 1, Len(decoded))]

\* the user authenticate_user returns, or the HTTPException it raises
Authenticated(user, username) ==
  [ok |-> TRUE, user |-> user, username |-> username, status_code |-> 200]

Unauthorized == [ok |-> FALSE, user |-> "", username |-> <<>>, status_code |-> 401]

\* auth.py:152-178
authenticate_user(request, GEMINI_AUTH_PASSWORD) ==
  LET api_key == request.key
      goog_api_key == request.x_goog_api_key
      auth_header == request.authorization
      basic == basic_password(auth_header.decoded)
  IN  IF api_key.present /\ api_key.value # <<>> /\ api_key.value = GEMINI_AUTH_PASSWORD
      THEN Authenticated("api_key_user", <<>>)
      ELSE IF goog_api_key.present /\ goog_api_key.value # <<>>
              /\ goog_api_key.value = GEMINI_AUTH_PASSWORD
      THEN Authenticated("goog_api_key_user", <<>>)
      ELSE IF auth_header.scheme = "Bearer " /\ auth_header.token = GEMINI_AUTH_PASSWORD
      THEN Authenticated("bearer_user", <<>>)
      ELSE IF auth_header.scheme = "Basic " /\ auth_header.valid /\ ~basic.ValueError
              /\ basic.password = GEMINI_AUTH_PASSWORD
      THEN Authenticated("basic", basic.username)
      ELSE Unauthorized

\* the configured password: not empty, with or without a colon
Passwords == {<<"p">>, <<"p", ":", "p">>}

\* what the key parameter, the x-goog-api-key header or the bearer token may hold
CarriedValues ==
  {Absent} \cup {Carried(TRUE, v) : v \in {<<>>, <<"u">>} \cup Passwords}

\* the Authorization headers: none, another scheme, a bearer token, and Basic
\* credentials that do not decode or decode to any string of up to MaxBasicLen
\* characters, or to a user name and the password with a colon in it
Authorizations ==
  {Authorization("absent", <<>>, FALSE, <<>>), Authorization("other", <<>>, FALSE, <<>>),
   Authorization("Basic ", <<>>, FALSE, <<>>)}
    \cup {Authorization("Bearer ", c.value, FALSE, <<>>) : c \in CarriedValues \ {Absent}}
    \cup {Authorization("Basic ", <<>>, TRUE, d) :
            d \in UNION {[1..k -> {"p", "u", ":"}] : k \in 0..MaxBasicLen}
                   \cup {<<"u", ":", "p", ":", "p">>}}

HttpRequests ==
  {[key |-> k, x_goog_api_key |-> g, authorization |-> a] :
     k \in CarriedValues, g \in CarriedValues, a \in Authorizations}

InitAuth ==
  /\ InitCooldown
  /\ InitPoolIdle
  /\ InitOnboardIdle
  /\ call \in {[fn |-> "authenticate_user", arg |-> rq, password |-> pw] :
                 rq \in HttpRequests, pw \in Passwords}
  /\ result = NotReturned

AuthenticateUser ==
  /\ call.fn = "authenticate_user"
  /\ ~result.done
  /\ result' = [done |-> TRUE, value |-> authenticate_user(call.arg, call.password)]
  /\ UNCHANGED <<cooldownVars, poolVars, onboardVars, call>>

NextAuth == AuthenticateUser

(***************************************************************************)
(* Specifications.                                                         *)
(***************************************************************************)
\* the module as imported: empty tracker, nothing resolved, no request running
Init ==
  /\ InitCooldown
  /\ InitCallIdle
  /\ InitPoolIdle
  /\ InitOnboardIdle

\* the same with credential files in the auth folder
InitPool ==
  /\ InitPoolStore
  /\ InitOnboardIdle

SpecCooldown == Init /\ [][NextCooldown]_vars

SpecPool == InitPool /\ [][NextPool]_vars

SpecOnboard == InitOnboard /\ [][NextOnboard]_vars

SpecDiscovery == InitDiscovery /\ [][NextDiscovery]_vars

SpecRequest == InitRequest /\ [][NextRequest]_vars

SpecResponse == InitResponse /\ [][NextResponse]_vars

SpecAuth == InitAuth /\ [][NextAuth]_vars

SpecTier == InitTier /\ [][NextTier]_vars

SpecChoices == InitChoices /\ [][NextChoices]_vars

\* One onboard_user call with its sleeps.  Time goes by while the call sleeps,
\* and upstream does not answer the onboard call with done=false for ever: again
\* and again an answer carries done=true or is an error.
SpecPoll ==
  /\ InitTier
  /\ [][NextPoll]_vars
  /\ WF_vars(\E d \in 1..(poll_interval * TicksPerSec) : Slept(d))
  /\ SF_vars(\E answer \in OnboardAnswers \ {"pending"} : OnboardPolled(answer))

(***************************************************************************)
(* Properties of the cooldown tracker.                                     *)
(***************************************************************************)
\* the cooldown, in ticks, that the entry of path p holds counted from now
DurationSet(p) == credential_cooldowns[p][1] - now

\* C1 as stated: the cooldown set by the n-th consecutive signal on a path is
\* min(60 * 2^(n-1), 1800) seconds for every n >= 1.
C1_NthSignalDuration ==
  last.op = "set" =>
    DurationSet(last.path) = Min(60 * Pow2(streak[last.path] - 1), 1800) * TicksPerSec

\* C1 amended: the n-th consecutive signal (no reset and no eviction of the entry
\* in between) sets a cooldown of min(60 * 2^(min(n,5)-1), 1800) seconds, that is
\* 60, 120, 240, 480, 960 and then 960 for every n >= 5.
C1_NthSignalDurationCapped ==
  last.op = "set" =>
    DurationSet(last.path) =
      Min(60 * Pow2(Min(streak[last.path], 5) - 1), 1800) * TicksPerSec

\* a sixth consecutive signal has been recorded
C1_Witness == last.op = "set" /\ streak[last.path] >= 6

\* C2: in every reachable state the backoff level of every path that has an
\* entry is at least 1 and at most 5.
C2_BackoffBounded ==
  \A p \in DOMAIN credential_cooldowns :
     /\ credential_cooldowns[p][2] >= 1
     /\ credential_cooldowns[p][2] <= 5

\* an entry at level 5 that has received more signals than five
C2_Witness ==
  \E p \in DOMAIN credential_cooldowns :
     credential_cooldowns[p][2] = 5 /\ streak[p] > 5

\* C3: right after reset_credential_cooldown(path), is_credential_in_cooldown(path)
\* returns False and get_credential_cooldown_remaining(path) returns 0.
C3_ResetClearsCooldown ==
  last.op = "reset" =>
    /\ is_credential_in_cooldown(credential_cooldowns, now, last.path).ret = FALSE
    /\ get_credential_cooldown_remaining(credential_cooldowns, now, last.path).ret = 0

\* a reset of a path that was in cooldown with time remaining
C3_Witness ==
  /\ last.op = "reset"
  /\ is_credential_in_cooldown(last.before, now, last.path).ret = TRUE
  /\ get_credential_cooldown_remaining(last.before, now, last.path).ret > 0

\* C5 as stated: a set_credential_cooldown on a path whose cooldown expiry has
\* passed stores backoff level 1 and a 60 s cooldown, whether or not a query
\* helper ran since the expiry.
C5_ExpiredEntryRestartsBackoff ==
  (/\ last.op = "set"
   /\ last.path \in DOMAIN last.before
   /\ now >= last.before[last.path][1])
  => /\ credential_cooldowns[last.path][2] = 1
     /\ DurationSet(last.path) = 60 * TicksPerSec

\* C6: the first set_credential_cooldown on a path after a
\* reset_credential_cooldown stores backoff level 1 and a 60 s cooldown, whatever
\* the level was before the reset.
C6_FirstSignalAfterReset ==
  (last.op = "set" /\ last.reset.pending) =>
     /\ credential_cooldowns[last.path][2] = 1
     /\ DurationSet(last.path) = 60 * TicksPerSec

\* a first signal after the reset of an entry that stood at level 2 or more
C6_Witness == last.op = "set" /\ last.reset.pending /\ last.reset.level >= 2

\* C25 as stated: a query helper called on a path that has an entry removes the
\* entry when its expiry has passed; when the expiry has not yet passed the call
\* leaves the tracker as it was, and the two helpers agree on the entry:
\* is_credential_in_cooldown returns True and get_credential_cooldown_remaining
\* returns more than 0 and removes nothing.
C25_QueryEvictsExactlyExpired ==
  (last.op \in {"is_in", "remaining"} /\ last.path \in DOMAIN last.before) =>
    IF now >= last.before[last.path][1]
    THEN credential_cooldowns = DictPop(last.before, last.path)
    ELSE /\ credential_cooldowns = last.before
         /\ is_credential_in_cooldown(last.before, now, last.path).ret = TRUE
         /\ get_credential_cooldown_remaining(last.before, now, last.path).ret > 0

\* C23: whatever the order in which the request paths' calls run, after k
\* set_credential_cooldown calls on a path since its entry was last absent (no
\* reset and no eviction in between) the entry holds backoff level min(k, 5): no
\* call's increment is lost.
C23_NoLostBackoffUpdate ==
  \A p \in Paths :
    IF p \in DOMAIN credential_cooldowns
    THEN credential_cooldowns[p][2] = Min(streak[p], 5)
    ELSE streak[p] = 0

\* signals on the two paths have been interleaved: one path stands at its third
\* signal, the other past its fifth
C23_Witness ==
  /\ DOMAIN credential_cooldowns = Paths
  /\ \E p \in Paths : streak[p] = 3 /\ credential_cooldowns[p][2] = 3
  /\ \E p \in Paths : streak[p] = 7 /\ credential_cooldowns[p][2] = 5

\* C32: a set_credential_cooldown call on a path leaves the path with an entry
\* whose expiry is no earlier, and whose backoff level is no lower, than those of
\* the entry the path had before the call, and leaves every other path as it
\* was: with the same entry, or with none.
C32_SetNeverShortens ==
  last.op = "set" =>
    /\ last.path \in DOMAIN credential_cooldowns
    /\ last.path \in DOMAIN last.before =>
          /\ credential_cooldowns[last.path][1] >= last.before[last.path][1]
          /\ credential_cooldowns[last.path][2] >= last.before[last.path][2]
    /\ DOMAIN credential_cooldowns \ {last.path} = DOMAIN last.before \ {last.path}
    /\ \A p \in DOMAIN last.before \ {last.path} :
          credential_cooldowns[p] = last.before[p]

\* a call on a path whose entry had not expired has raised its level and moved
\* its expiry later, while the other path kept its entry
C32_Witness ==
  /\ last.op = "set"
  /\ DOMAIN last.before = Paths
  /\ now < last.before[last.path][1]
  /\ credential_cooldowns[last.path][2] > last.before[last.path][2]
  /\ credential_cooldowns[last.path][1] > last.before[last.path][1]

(***************************************************************************)
(* Properties of credential selection.                                     *)
(***************************************************************************)
\* get_credentials has returned, and no file of the folder was written while it
\* ran: the folder is the one the call went through
Resolved == resolved.pc = "returned" /\ resolved.stable

\* the paths of the folder whose file loads into credentials with a token
UsablePaths ==
  {auth_files[i].path : i \in {j \in DOMAIN auth_files :
      Usable(load_credentials_from_file(auth_files, auth_files[j].path))}}

InCooldown(path) == is_credential_in_cooldown(credential_cooldowns, now, path).ret

\* C4 as stated: when the folder holds a usable credential whose path is in
\* cooldown and a usable credential whose path is not, get_credentials(None)
\* returns the one not in cooldown and neither loads nor returns the one in
\* cooldown, whatever the listing order.
C4_ResolveSkipsCooldown ==
  (/\ Resolved
   /\ resolved.project_id = NoProject
   /\ \E a \in UsablePaths : InCooldown(a)
   /\ \E b \in UsablePaths : ~InCooldown(b))
  => /\ resolved.creds.loaded
     /\ ~InCooldown(resolved.creds.origin)
     /\ \A p \in resolved.loaded : ~InCooldown(p)

\* the file at index i of the listing loads into credentials with a token
UsableAt(i) == Usable(load_credentials_from_file(auth_files, auth_files[i].path))

\* C15: get_credentials(None) returns the credentials of the first file in
\* listing order that loads and has a non-empty token, skipping the files before
\* it that do not; get_credentials (with or without a project id) returns None
\* exactly when the folder is empty or no file loads with a non-empty token.
C15_LoadAnySkipsMalformed ==
  Resolved =>
    /\ ~resolved.creds.loaded <=> (\A i \in DOMAIN auth_files : ~UsableAt(i))
    /\ (resolved.project_id = NoProject /\ resolved.creds.loaded) =>
         \E i \in DOMAIN auth_files :
           /\ UsableAt(i)
           /\ \A j \in 1..(i - 1) : ~UsableAt(j)
           /\ resolved.creds = load_credentials_from_file(auth_files, auth_files[i].path)
           /\ resolved.loaded = {auth_files[j].path : j \in 1..i}

\* get_credentials(None) went past a file that is not JSON and returned the next
C15_Witness ==
  /\ Resolved /\ resolved.project_id = NoProject
  /\ Len(auth_files) = 2
  /\ ~auth_files[1].data.json
  /\ resolved.creds.loaded /\ resolved.creds.origin = auth_files[2].path

\* C16 as stated: a file whose expiry value is malformed still loads, into
\* credentials that count as expired: listed first and holding a token, it is
\* what get_credentials(None) returns.
C16_MalformedExpiryLoadsExpired ==
  (/\ Resolved /\ resolved.project_id = NoProject
   /\ auth_files # <<>>
   /\ auth_files[1].data.json
   /\ auth_files[1].data.expiry = "malformed"
   /\ auth_files[1].data.token > 0)
  => /\ resolved.creds.loaded
     /\ resolved.creds.origin = auth_files[1].path
     /\ resolved.creds.expired

\* the project_id stored in the file that credentials were loaded from
StoredProject(creds) == ReadFile(auth_files, creds.origin).project_id

\* C31 as stated: get_credentials with a project id given returns either None or
\* the credentials of a file whose stored project_id is the one asked for, never
\* the credentials of a file stored for another project.
C31_ResolveKeepsProject ==
  (Resolved /\ resolved.project_id # NoProject)
  => \/ ~resolved.creds.loaded
     \/ StoredProject(resolved.creds) = resolved.project_id

(***************************************************************************)
(* Properties of project-id resolution, refresh and onboarding.            *)
(***************************************************************************)
\* the project_id key of the file the credentials of request r were loaded from
EmbeddedProject(r) == ReadFile(auth_files, req[r].creds.origin).project_id

\* what a load of the file behind the credentials of request r gives now
StoredCreds(r) == load_credentials_from_file(auth_files, req[r].creds.origin)

\* no upload has replaced the file behind the credentials of request r
FileKept(r) ==
  \E i \in DOMAIN auth_files :
    auth_files[i].path = req[r].creds.origin /\ auth_files[i] = OnboardStore[i]

\* C7 as stated: get_user_project_id returns the project_id embedded in the
\* credential even when the override or a discoverable value differs; failing
\* that, the GOOGLE_CLOUD_PROJECT override, with no discovery call; the discovery
\* endpoint is called only when neither exists.
C7_ProjectIdPriority ==
  \A r \in Requests :
    req[r].op = "project" =>
      /\ (req[r].outcome = "returned" /\ EmbeddedProject(r) # NoProject)
            => req[r].project_id = EmbeddedProject(r)
      /\ (req[r].outcome = "returned" /\ EmbeddedProject(r) = NoProject
            /\ env_project # NoProject)
            => (req[r].project_id = env_project /\ req[r].calls = {})
      /\ req[r].calls # {} => (EmbeddedProject(r) = NoProject /\ env_project = NoProject)

\* C8 as stated: after a refresh that succeeded (in onboard_user or before
\* discovery) the new access token and expiry are in the credential file, so
\* that a load of that file yields a token at least as fresh (as long as no
\* upload replaces the file).
C8_RefreshPersisted ==
  \A r \in Requests :
    (req[r].refresh = "ok" /\ FileKept(r)) =>
      /\ StoredCreds(r).loaded
      /\ StoredCreds(r).token >= req[r].creds.token
      /\ ~StoredCreds(r).expired

\* C9 as stated: when the refresh fails, the call that tried it raises a refresh
\* error, sends no upstream call with the stale token, and leaves the stored
\* record as it was.
C9_RefreshFailureSignalled ==
  \A r \in Requests :
    req[r].refresh = "failed" =>
      /\ req[r].outcome = "raised"
      /\ req[r].error = "refresh"
      /\ req[r].calls = {}
      /\ FileKept(r) => StoredCreds(r) = req[r].creds

\* a step in which a refresh fails
RefreshFails(r) == req[r]' # req[r] /\ req[r].pc = "ready" /\ req[r]'.refresh = "failed"

\* C9 amended: a refresh that fails in onboard_user is raised to the caller as a
\* refresh error and no upstream call is sent; a refresh that fails before
\* project-id discovery is not signalled, and the discovery call is sent with the
\* stale token when there is one.  In both, the stored record, the credentials
\* object and the cooldown tracker are left as they were.
C9_RefreshFailureByCall ==
  /\ [](\A r \in Requests :
          req[r].refresh = "failed" =>
            /\ FileKept(r) => StoredCreds(r) = req[r].creds
            /\ req[r].op = "onboard" =>
                 (req[r].outcome = "raised" /\ req[r].error = "refresh"
                    /\ req[r].calls = {})
            /\ req[r].op = "project" =>
                 /\ req[r].error # "refresh"
                 /\ req[r].creds.token # 0 =>
                      req[r].calls = {UpstreamCall("discover", NoProject, "", FALSE)})
  /\ [][\A r \in Requests :
          RefreshFails(r) => UNCHANGED <<auth_files, credential_cooldowns>>]_vars

\* a refresh has failed in onboard_user, and one has failed before discovery
C9_Witness ==
  /\ \E r \in Requests : req[r].refresh = "failed" /\ req[r].op = "onboard"
  /\ \E r \in Requests : req[r].refresh = "failed" /\ req[r].op = "project"

\* C10 as stated: whenever onboard_user(creds, p) returns, the handshake for
\* project p itself has succeeded: a load call for p answered with a currentTier
\* or an onboard call for p answered done.
C10_OnboardedMeansThisProject ==
  \A r \in Requests :
    (req[r].op = "onboard" /\ req[r].outcome = "returned" /\ req[r].project_id # NoProject)
      => req[r].project_id \in handshakes

(***************************************************************************)
(* Properties of onboard_user's failures.                                  *)
(***************************************************************************)
\* the request's last call was onboard_user and it sent this kind of call
Sent(r, kind) == \E c \in req[r].calls : c.kind = kind

\* onboard_user read a tier that requires a user-defined project and was handed
\* no project id
ProjectRequired(r) ==
  /\ req[r].op = "onboard"
  /\ req[r].load.status = "ok"
  /\ req[r].load.required
  /\ req[r].project_id = NoProject

\* onboard_user failed because of an upstream call: the load or the onboard call
\* got an HTTP error status, or failed otherwise
UpstreamFailure(r) ==
  /\ req[r].op = "onboard"
  /\ req[r].outcome = "raised"
  /\ req[r].load.status \in {"http_error", "error"} \/ Sent(r, "onboard")

\* C11: when the tier read from the load answer (currentTier included) requires a
\* user-defined project and no project id was supplied, onboard_user fails, has
\* sent no onboard call, and its error differs from the error of every
\* onboard_user call that failed because of an upstream call.
C11_ConfigurationErrorDistinct ==
  \A r \in Requests :
    ProjectRequired(r) =>
      /\ req[r].outcome = "raised"
      /\ ~Sent(r, "onboard")
      /\ \A r2 \in Requests : UpstreamFailure(r2) => req[r2].error # req[r].error

\* C11, without the comparison of errors: the call fails and sends no onboard call
C11_ProjectRequiredStops ==
  \A r \in Requests :
    ProjectRequired(r) => req[r].outcome = "raised" /\ ~Sent(r, "onboard")

\* C12: when the load answer carries a currentTier and the project requirement
\* is met, onboard_user returns, onboarding_complete is set, the handshake for its
\* project counts as done, and no onboard call was sent.
C12_CurrentTierCompletes ==
  \A r \in Requests :
    (/\ req[r].op = "onboard"
     /\ req[r].load.status = "ok"
     /\ req[r].load.current
     /\ ~ProjectRequired(r))
    => /\ req[r].outcome = "returned"
       /\ onboarding_complete
       /\ req[r].project_id \in handshakes
       /\ req[r].calls = {UpstreamCall("load", req[r].project_id, "", FALSE)}

\* a call was answered with a currentTier that requires a project and had one
C12_Witness ==
  \E r \in Requests :
    /\ req[r].op = "onboard"
    /\ req[r].load = LoadSeen("ok", TRUE, TRUE, NoProject)
    /\ req[r].project_id # NoProject
    /\ req[r].outcome = "returned"

\* a step in which an onboard_user call of request r fails
OnboardFails(r) ==
  req[r]' # req[r] /\ req[r]'.op = "onboard" /\ req[r]'.outcome = "raised"

\* a step in which request r, whose last onboard_user call failed, calls it again
OnboardRetried(r) ==
  /\ req[r]' # req[r]
  /\ req[r].pc = "ready" /\ req[r].op = "onboard" /\ req[r].outcome = "raised"

\* the call of request r has started the handshake over: it sent the load call,
\* unless the refresh that comes first failed
HandshakeRestarted(r) ==
  \/ \E c \in req[r]'.calls : c.kind = "load"
  \/ req[r]'.error = "refresh" /\ req[r]'.calls = {}

\* C13 as stated: when onboard_user fails, onboarding_complete is False after it
\* and the cooldown tracker and the credential files are unchanged; a later call
\* with the same credentials (made while the flag is False) starts the handshake
\* again from the load call.
C13_FailedOnboardLeavesFlagFalse ==
  [][\A r \in Requests :
       /\ OnboardFails(r) =>
            (~onboarding_complete' /\ UNCHANGED <<auth_files, credential_cooldowns>>)
       /\ (OnboardRetried(r) /\ ~onboarding_complete) => HandshakeRestarted(r)]_vars

\* C13 amended: a failing onboard_user call does not write onboarding_complete,
\* the cooldown tracker or the credential files, and the flag is False after a
\* call that fails before its first sleep.  A later call with the same
\* credentials starts over from the refresh and the load call while the flag is
\* False; once another call has set the flag, it returns at once with no call.
C13_FailedOnboardIsRetriable ==
  [][\A r \in Requests :
       /\ OnboardFails(r) =>
            /\ onboarding_complete' = onboarding_complete
            /\ UNCHANGED <<auth_files, credential_cooldowns>>
            /\ req[r].pc = "ready" => ~onboarding_complete'
       /\ OnboardRetried(r) =>
            IF onboarding_complete
            THEN req[r]'.outcome = "returned" /\ req[r]'.calls = {}
            ELSE HandshakeRestarted(r)]_vars

\* an onboard call got an HTTP error while onboarding_complete was False, and the
\* request can call onboard_user again
C13_Witness ==
  \E r \in Requests :
    /\ req[r].op = "onboard" /\ req[r].outcome = "raised" /\ req[r].error = "http"
    /\ Sent(r, "onboard")
    /\ ~onboarding_complete
    /\ req[r].pc = "ready"

(***************************************************************************)
(* Properties of project-id discovery.                                     *)
(***************************************************************************)
\* the errors get_user_project_id raises on its discovery path (auth.py:402,
\* 432, 435)
DiscoveryErrors == {"no_token", "discovery_http", "discovery"}

\* get_user_project_id of request r went past the embedded project id and the
\* override and has ended
DiscoveryEnded(r) ==
  /\ req[r].op = "project" /\ req[r].pc = "ready"
  /\ req[r].creds.project_id = NoProject /\ env_project = NoProject

\* C14: on the discovery path get_user_project_id raises a discovery error and
\* yields no project id when the credentials have no access token (no call is
\* sent then), when the call fails, or when the answer has no
\* cloudaicompanionProject; otherwise it returns the project id of the answer.
C14_DiscoveryFailsOrReturnsField ==
  \A r \in Requests :
    /\ (req[r].op = "project" /\ Sent(r, "discover"))
         => (req[r].creds.project_id = NoProject /\ env_project = NoProject)
    /\ DiscoveryEnded(r) =>
      IF req[r].creds.token = 0
      THEN req[r].outcome = "raised" /\ req[r].error = "no_token"
             /\ req[r].calls = {} /\ req[r].project_id = NoProject
      ELSE /\ Sent(r, "discover")
           /\ IF req[r].load.status = "ok" /\ req[r].load.project # NoProject
              THEN req[r].outcome = "returned"
                     /\ req[r].project_id = req[r].load.project
              ELSE req[r].outcome = "raised" /\ req[r].error \in DiscoveryErrors
                     /\ req[r].project_id = NoProject

\* one call has failed for want of a token, one on an answer without the field
C14_Witness ==
  /\ \E r \in Requests : DiscoveryEnded(r) /\ req[r].error = "no_token"
  /\ \E r \in Requests :
       DiscoveryEnded(r) /\ req[r].load.status = "ok" /\ req[r].load.project = NoProject

(***************************************************************************)
(* Properties of the transformers.                                         *)
(***************************************************************************)
\* the positions of character c in str
Positions(str, c) == {i \in DOMAIN str : str[i] = c}

\* the URL has the delimiter structure x:MIME;y,DATA: one ";", one ":" before
\* it and one "," after it
DelimitersFit(url) ==
  /\ Cardinality(Positions(url, ";")) = 1
  /\ LET semi == CHOOSE i \in Positions(url, ";") : TRUE
     IN  /\ Cardinality({i \in Positions(url, ":") : i < semi}) = 1
         /\ Cardinality({i \in Positions(url, ",") : i > semi}) = 1

\* the MIME type and the payload of a URL whose delimiters fit
MimeOf(url) ==
  LET semi == CHOOSE i \in Positions(url, ";") : TRUE
      colon == CHOOSE i \in Positions(url, ":") : i < semi
  IN  SubSeq(url, colon + 1, semi - 1)

PayloadOf(url) ==
  LET semi == CHOOSE i \in Positions(url, ";") : TRUE
      comma == CHOOSE i \in Positions(url, ",") : i > semi
  IN  SubSeq(url, comma + 1, Len(url))

\* the parts of the content that are emitted: text parts, and image parts whose
\* URL is there and has the delimiter structure
Emitted(content) ==
  SelectSeq(content, LAMBDA p : \/ p.type = "text"
                                \/ p.type = "image_url" /\ p.url # <<>>
                                     /\ DelimitersFit(p.url))

\* C17: the parts of a translated content list are, in the original order, one
\* text part for each text part and one inlineData part, with the MIME type and
\* the payload of the URL, for each image part whose URL has the delimiter
\* structure; the other image parts are dropped and nothing else is lost.
C17_ContentPartsTranslated ==
  (result.done /\ call.fn = "openai_request_to_gemini"
     /\ call.arg.messages[1].is_list) =>
    LET want == Emitted(call.arg.messages[1].content)
        got == result.value.contents[1].parts
    IN  /\ Len(got) = Len(want)
        /\ \A i \in DOMAIN want :
             IF want[i].type = "text"
             THEN got[i] = GeminiPart("text", IF want[i].has_text THEN want[i].text
                                             ELSE "", <<>>, <<>>)
             ELSE got[i] = GeminiPart("inlineData", "", MimeOf(want[i].url),
                                      PayloadOf(want[i].url))

\* a content with an image part that fails the parse between a text part and an
\* image part that passes it
C17_Witness ==
  /\ result.done /\ call.fn = "openai_request_to_gemini"
  /\ LET content == call.arg.messages[1].content
     IN  /\ call.arg.messages[1].is_list
         /\ Len(content) = 3
         /\ content[1].type = "text"
         /\ content[2].type = "image_url" /\ content[2].url # <<>>
         /\ ~DelimitersFit(content[2].url)
         /\ content[3].type = "image_url" /\ content[3].url # <<>>
         /\ DelimitersFit(content[3].url)
  /\ Len(result.value.contents[1].parts) = 2

RECURSIVE JoinedContent(_)
\* the content fields of the deltas, concatenated (an omitted one is empty)
JoinedContent(chunks) ==
  IF chunks = <<>> THEN ""
  ELSE (IF Head(chunks).choices[1].delta.has_content
        THEN Head(chunks).choices[1].delta.content ELSE "")
         \o JoinedContent(Tail(chunks))

RECURSIVE JoinedReasoning(_)
\* the reasoning_content fields of the deltas, concatenated
JoinedReasoning(chunks) ==
  IF chunks = <<>> THEN ""
  ELSE (IF Head(chunks).choices[1].delta.has_reasoning_content
        THEN Head(chunks).choices[1].delta.reasoning_content ELSE "")
         \o JoinedReasoning(Tail(chunks))

\* C18: however upstream cuts the parts of a reply into chunks, the content
\* fields of the translated chunks, concatenated in order, are the content of
\* the translation of the whole reply; likewise for reasoning_content.
C18_StreamEqualsResponse ==
  (call.fn = "gemini_to_openai" /\ result.ended /\ result.responded) =>
    /\ JoinedContent(result.chunks) = result.response.choices[1].message.content
    /\ JoinedReasoning(result.chunks) =
         (IF result.response.choices[1].message.has_reasoning_content
          THEN result.response.choices[1].message.reasoning_content ELSE "")

\* a reply with content and reasoning, streamed in several chunks, one of which
\* has no content
C18_Witness ==
  /\ call.fn = "gemini_to_openai" /\ result.ended /\ result.responded
  /\ Len(result.chunks) >= 2
  /\ result.response.choices[1].message.content = "ab"
  /\ result.response.choices[1].message.reasoning_content = "t"
  /\ \E i \in DOMAIN result.chunks : ~result.chunks[i].choices[1].delta.has_content

\* the finish reason the OpenAI side is to get
FinishReasonTable(gemini_reason) ==
  CASE gemini_reason = "STOP" -> "stop"
    [] gemini_reason = "MAX_TOKENS" -> "length"
    [] gemini_reason = "SAFETY" -> "content_filter"
    [] gemini_reason = "RECITATION" -> "content_filter"
    [] OTHER -> Null

\* C19: the finish_reason of a translated reply, and of the translated chunk that
\* carries the finishReason, is stop for STOP, length for MAX_TOKENS,
\* content_filter for SAFETY and RECITATION, and null for any other value and for
\* an absent one (as in the chunks before the last).
C19_FinishReasonMapped ==
  call.fn = "gemini_to_openai" =>
    /\ result.responded =>
         result.response.choices[1].finish_reason =
           FinishReasonTable(call.arg.finishReason)
    /\ \A i \in DOMAIN result.chunks :
         result.chunks[i].choices[1].finish_reason =
           (IF result.ended /\ i = Len(result.chunks)
            THEN FinishReasonTable(call.arg.finishReason) ELSE Null)

\* a reply that ended with RECITATION has been translated both ways
C19_Witness ==
  /\ call.fn = "gemini_to_openai" /\ result.ended /\ result.responded
  /\ call.arg.finishReason = "RECITATION"
  /\ result.response.choices[1].finish_reason = "content_filter"
  /\ result.chunks[Len(result.chunks)].choices[1].finish_reason = "content_filter"

\* the parts that carry a text that is not empty, flagged as thought or not
TextParts(parts, thought) ==
  SelectSeq(parts, LAMBDA p : p.has_text /\ p.text # "" /\ p.thought = thought)

RECURSIVE TextsJoined(_)
\* the texts of the parts, one after the other
TextsJoined(parts) ==
  IF parts = <<>> THEN "" ELSE Head(parts).text \o TextsJoined(Tail(parts))

\* C28: gemini_response_to_openai gives one choice per candidate, in order; the
\* content of its message is the texts of the candidate's parts that are not
\* flagged as thought, in part order, and is a key of the message even when
\* empty; its reasoning_content is the texts of the parts flagged as thought, in
\* part order, and is a key of the message only when it is not empty.
C28_ChoicePerCandidate ==
  (call.fn = "gemini_response_to_openai" /\ result.done) =>
    /\ DOMAIN result.value.choices = DOMAIN call.arg.candidates
    /\ \A i \in DOMAIN call.arg.candidates :
         LET parts == call.arg.candidates[i].parts
             message == result.value.choices[i].message
         IN  /\ message.has_content
             /\ message.content = TextsJoined(TextParts(parts, FALSE))
             /\ message.has_reasoning_content <=> TextParts(parts, TRUE) # <<>>
             /\ message.has_reasoning_content =>
                  message.reasoning_content = TextsJoined(TextParts(parts, TRUE))

\* a response of two candidates: one whose thought and other parts alternate, two
\* of each, and one with no text at all, whose message has an empty content and
\* no reasoning_content
C28_Witness ==
  /\ call.fn = "gemini_response_to_openai" /\ result.done
  /\ Len(result.value.choices) = 2
  /\ \E i \in 1..2 :
       /\ result.value.choices[i].message.content = "ab"
       /\ result.value.choices[i].message.reasoning_content = "tu"
  /\ \E i \in 1..2 :
       /\ call.arg.candidates[i].parts # <<>>
       /\ result.value.choices[i].message.content = ""
       /\ ~result.value.choices[i].message.has_reasoning_content

\* C29: the delta of a translated chunk has a content key exactly when the chunk
\* has text that is not flagged as thought, and a reasoning_content key exactly
\* when it has text flagged as thought; a key that is there never holds an empty
\* string; and every chunk of a stream carries the response id the stream was
\* translated with.
C29_DeltaOmitsEmptyFields ==
  call.fn = "gemini_to_openai" =>
    \A i \in DOMAIN result.chunks :
      LET parts == result.streamed[i].parts
          delta == result.chunks[i].choices[1].delta
      IN  /\ result.chunks[i].id = call.response_id
          /\ delta.has_content <=> TextParts(parts, FALSE) # <<>>
          /\ delta.has_content => delta.content # ""
          /\ delta.has_reasoning_content <=> TextParts(parts, TRUE) # <<>>
          /\ delta.has_reasoning_content => delta.reasoning_content # ""

\* a stream of three chunks: one with content only, one with reasoning only, and
\* one, with parts, that has neither
C29_Witness ==
  /\ call.fn = "gemini_to_openai" /\ result.ended
  /\ Len(result.chunks) = 3
  /\ \E i \in 1..3 : LET d == result.chunks[i].choices[1].delta
                      IN  d.has_content /\ ~d.has_reasoning_content
  /\ \E i \in 1..3 : LET d == result.chunks[i].choices[1].delta
                      IN  ~d.has_content /\ d.has_reasoning_content
  /\ \E i \in 1..3 : LET d == result.chunks[i].choices[1].delta
                      IN  /\ ~d.has_content /\ ~d.has_reasoning_content
                          /\ result.streamed[i].parts # <<>>

(***************************************************************************)
(* Properties of inbound authentication.                                   *)
(***************************************************************************)
\* the password of Basic credentials: what follows their first colon
PasswordAfterColon(decoded, password) ==
  \E i \in DOMAIN decoded :
    /\ decoded[i] = ":"
    /\ \A j \in 1..(i - 1) : decoded[j] # ":"
    /\ SubSeq(decoded, i + 1, Len(decoded)) = password

\* one of the four carriers of the request holds the password
SomeCarrierMatches(request, password) ==
  \/ request.key.present /\ request.key.value = password
  \/ request.x_goog_api_key.present /\ request.x_goog_api_key.value = password
  \/ request.authorization.scheme = "Bearer " /\ request.authorization.token = password
  \/ /\ request.authorization.scheme = "Basic "
     /\ request.authorization.valid
     /\ PasswordAfterColon(request.authorization.decoded, password)

\* C20: authenticate_user returns a user exactly when the key parameter, the
\* x-goog-api-key header, the bearer token or the password of the Basic
\* credentials (whatever the user name) is the configured password, whatever the
\* other carriers hold; otherwise it raises HTTPException 401.
C20_AuthenticatedIffCarrierMatches ==
  (call.fn = "authenticate_user" /\ result.done) =>
    /\ result.value.ok <=> SomeCarrierMatches(call.arg, call.password)
    /\ ~result.value.ok => result.value.status_code = 401

\* the key parameter and the x-goog-api-key header hold wrong values and the
\* Basic password, which has a colon in it, matches
C20_Witness ==
  /\ call.fn = "authenticate_user" /\ result.done
  /\ call.arg.key.present /\ call.arg.key.value # call.password
  /\ call.arg.x_goog_api_key.present /\ call.arg.x_goog_api_key.value # call.password
  /\ call.arg.authorization.scheme = "Basic "
  /\ call.password = <<"p", ":", "p">>
  /\ result.value.ok

(***************************************************************************)
(* Properties of onboarding_complete and of the poll loop.                 *)
(***************************************************************************)
\* a step of an onboard_user call of request r (its start, or a pass of its loop)
OnboardStep(r) == req[r]' # req[r] /\ req[r]'.op = "onboard"

\* the step ends the call of request r on a load answer with a currentTier, or on
\* an onboard answer with done, the tier being resolved and its project
\* requirement met
CompletesHandshake(r) ==
  /\ OnboardStep(r)
  /\ req[r]'.outcome = "returned"
  /\ req[r]'.load.status = "ok"
  /\ ~(req[r]'.load.required /\ req[r]'.project_id = NoProject)
  /\ \/ req[r]'.load.current /\ req[r]'.lro = NoLro
     \/ ~req[r]'.load.current /\ req[r]'.lro = "done"

\* C21: onboarding_complete turns from False to True only in a step in which an
\* onboard_user call returns on a load answer that carried a currentTier or on an
\* onboard answer that carried done; no step in which a call raises, or has not
\* resolved its tier, sets it; and once True it stays True.
C21_FlagSetOnlyOnCompletion ==
  [][/\ onboarding_complete => onboarding_complete'
     /\ (~onboarding_complete /\ onboarding_complete') =>
          \E r \in Requests : CompletesHandshake(r)
     /\ \A r \in Requests :
          (OnboardStep(r) /\ req[r]'.outcome # "returned") =>
             onboarding_complete' = onboarding_complete]_vars

\* the flag is set, one call having returned on a currentTier or on done, while
\* the other call has raised after its onboard call
C21_Witness ==
  /\ onboarding_complete
  /\ \E r \in Requests :
       req[r].op = "onboard" /\ req[r].outcome = "returned" /\ req[r].lro = "done"
  /\ \E r \in Requests :
       req[r].op = "onboard" /\ req[r].outcome = "raised" /\ req[r].lro = "http_error"

\* a step in which request r calls onboard_user
OnboardCalled(r) ==
  req[r]' # req[r] /\ req[r].pc = "ready" /\ req[r].op # "none" /\ req[r]'.op = "onboard"

\* C26: an onboard_user call made while onboarding_complete is True returns at
\* once: it tries no refresh, sends no load and no onboard call, and leaves the
\* credentials object, the flag, the credential files, the token endpoint, the
\* cooldown tracker and user_project_id as they were.
C26_FlagSetReturnsAtOnce ==
  [][\A r \in Requests :
       (OnboardCalled(r) /\ onboarding_complete) =>
          /\ req[r]'.outcome = "returned"
          /\ req[r]'.pc = "ready"
          /\ req[r]'.refresh = "none"
          /\ req[r]'.calls = {}
          /\ req[r]'.creds = req[r].creds
          /\ UNCHANGED <<onboarding_complete, auth_files, token_seq, handshakes,
                         credential_cooldowns, user_project_id, env_project>>]_vars

\* a call made after another call had set the flag has returned with no call
\* sent, for a project whose handshake was never done, on credentials that were
\* due for a refresh
C26_Witness ==
  \E r \in Requests :
    /\ req[r].op = "onboard" /\ req[r].outcome = "returned"
    /\ req[r].calls = {} /\ req[r].load = NoLoad
    /\ onboarding_complete
    /\ NeedsRefresh(req[r].creds)
    /\ req[r].project_id \notin handshakes

\* C24 as stated: when two requests have both refreshed credentials loaded from
\* the same file, the file holds a record at least as fresh as the result of
\* either refresh: a load of it gives a token that is not older than either new
\* token and has not expired.
C24_ConcurrentRefreshConverges ==
  \A r1, r2 \in Requests :
    (/\ r1 # r2
     /\ req[r1].refresh = "ok" /\ req[r2].refresh = "ok"
     /\ req[r1].creds.origin = req[r2].creds.origin
     /\ FileKept(r1))
    => /\ StoredCreds(r1).loaded
       /\ StoredCreds(r1).token >= req[r1].creds.token
       /\ StoredCreds(r1).token >= req[r2].creds.token
       /\ ~StoredCreds(r1).expired

\* C30 as stated: no load call and no onboard call is sent while
\* onboarding_complete is True, by a call that starts then or by one that was
\* sleeping between two passes of its loop when the flag was set.
C30_NoCallOnceFlagSet ==
  \A r \in Requests :
    req[r].op = "onboard" => \A c \in req[r].calls : ~c.flag

\* C30 amended: while onboarding_complete is True, a call that starts sends no
\* load call and no onboard call; a call that was sleeping between two passes of
\* its loop sends its onboard call again, with the same payload, and no load
\* call, and goes on until an answer carries done or the call fails.
C30_OnlySleepersCallOnceFlagSet ==
  [][\A r \in Requests :
       (onboarding_complete /\ OnboardStep(r)) =>
          IF req[r].pc = "sleeping"
          THEN /\ UpstreamCall("onboard", req[r].project_id, req[r].tier, TRUE)
                    \in req[r]'.calls
               /\ req[r]'.calls \ req[r].calls
                    \subseteq {UpstreamCall("onboard", req[r].project_id, req[r].tier,
                                            TRUE)}
               /\ req[r]'.pc = "sleeping" <=> req[r]'.lro = "pending"
          ELSE req[r]'.calls = {}]_vars

\* a call that slept while the other call set the flag has sent its onboard call
\* again and sleeps on, and the other request has since called again and
\* returned with no call sent
C30_Witness ==
  /\ onboarding_complete
  /\ \E r \in Requests :
       /\ req[r].op = "onboard" /\ req[r].pc = "sleeping"
       /\ UpstreamCall("onboard", req[r].project_id, req[r].tier, TRUE) \in req[r].calls
  /\ \E r \in Requests :
       req[r].op = "onboard" /\ req[r].outcome = "returned" /\ req[r].calls = {}

(***************************************************************************)
(* Properties of the poll loop.                                            *)
(***************************************************************************)
\* the call sleeps between two passes of its loop
InLoop == call.fn = "onboard_user" /\ result.done /\ result.value.outcome = "sleeping"

\* the call has returned or raised
Ended ==
  call.fn = "onboard_user" /\ result.done /\ result.value.outcome \in {"returned", "raised"}

\* a step in which the call, asleep in its loop, wakes and sends its onboard call
\* again
PollStep == InLoop /\ result' # result /\ result'.waited = 0

\* C22: a call in its loop sends the onboard call again only after 5 seconds of
\* sleep, with the tier id and the project id of its first onboard call, and
\* then sleeps again when the answer has no done, returns when it carries done
\* and raises when it is an error; whatever the number of passes made, an answer
\* without done leaves the call in the loop (there is no bound on the passes);
\* and a call in its loop ends when upstream eventually answers with done or
\* with an error.
C22_PollsUntilDone ==
  /\ [][PollStep =>
          /\ result.waited >= 5 * TicksPerSec
          /\ result'.value.calls =
               result.value.calls
                 \cup {UpstreamCall("onboard", call.project_id, result.value.tier, FALSE)}
          /\ result.value.calls # {}
          /\ result'.value.tier = result.value.tier
          /\ result'.value.outcome =
               (CASE result'.value.lro = "done" -> "returned"
                  [] result'.value.lro \in {"http_error", "error"} -> "raised"
                  [] OTHER -> "sleeping")]_vars
  /\ [](InLoop =>
          /\ \E c \in result.value.calls :
               c = UpstreamCall("onboard", call.project_id, result.value.tier, FALSE)
          /\ onboard_poll(result.value.creds, call.project_id, result.value.tier,
                          onboarding_complete, result.value.refresh, result.value.calls,
                          result.value.load, "pending").outcome = "sleeping")
  /\ (InLoop ~> Ended)

\* the call has returned on done after MaxPolls passes or more and 5 seconds of
\* sleep before the last
C22_Witness ==
  /\ Ended
  /\ result.value.outcome = "returned"
  /\ result.value.lro = "done"
  /\ result.polls = MaxPolls

(***************************************************************************)
(* Properties of tier selection.                                           *)
(***************************************************************************)
\* the allowed tiers of the answer that are flagged as default, in list order
DefaultTiers(load_data) == SelectSeq(load_data.allowedTiers, LAMBDA t : t.isDefault)

\* the tier the handshake is to go by
ChosenTier(load_data) ==
  IF load_data.currentTier.present THEN load_data.currentTier
  ELSE IF DefaultTiers(load_data) # <<>> THEN Head(DefaultTiers(load_data))
  ELSE [present |-> TRUE, id |-> "legacy-tier", isDefault |-> FALSE,
        userDefinedCloudaicompanionProject |-> TRUE]

\* C27: onboard_user goes by the currentTier of the load answer when there is
\* one, else by the first allowed tier flagged as default, else by a made-up
\* tier that requires a user-defined project: it raises exactly when that tier
\* requires a project and none was supplied, and the onboard call, when one is
\* sent, carries the id of that tier and the project id.
C27_TierSelection ==
  (call.fn = "onboard_user" /\ result.done) =>
    LET chosen == ChosenTier(call.load_answer)
        run == result.value
        onboards == {c \in run.calls : c.kind = "onboard"}
    IN  /\ run.load.required = chosen.userDefinedCloudaicompanionProject
        /\ (run.outcome = "raised" /\ run.lro = NoLro) <=>
             (chosen.userDefinedCloudaicompanionProject /\ call.project_id = NoProject)
        /\ onboards # {} <=>
             (~call.load_answer.currentTier.present
                /\ ~(chosen.userDefinedCloudaicompanionProject
                       /\ call.project_id = NoProject))
        /\ \A c \in onboards : c.tier = chosen.id /\ c.project_id = call.project_id

\* the answer has no currentTier and lists two default tiers with different ids;
\* the onboard call carried the id of the first
C27_Witness ==
  /\ call.fn = "onboard_user" /\ result.done
  /\ ~call.load_answer.currentTier.present
  /\ Len(DefaultTiers(call.load_answer)) = 2
  /\ DefaultTiers(call.load_answer)[1].id # DefaultTiers(call.load_answer)[2].id
  /\ \E c \in result.value.calls :
       c.kind = "onboard" /\ c.tier = DefaultTiers(call.load_answer)[1].id
====
